---- MODULE Spec2Model ----
(***************************************************************************)
(* StyleMimic: the key rotation executor of services/geminiService.ts      *)
(* (executeWithKeyRotation), the API key pool handlers of App.tsx that     *)
(* feed it, and the service operations it runs: the response handling of   *)
(* analyzeTranscript and suggestTravelLocations, the blueprint and request *)
(* of generateScript, and the prompt of refineText; the session of a user  *)
(* (login, logout, the loading states of App.tsx), the writing structures  *)
(* and the cloud library of profiles.                                      *)
(*                                                                         *)
(* Strings are sequences of one-character strings, so that trim() and      *)
(* split(',') are computed.  An error message is a sequence of words and   *)
(* msg.includes(w) is the occurrence of the word w in it.                  *)
(***************************************************************************)
EXTENDS Integers, Sequences, FiniteSets, TLC

VARIABLES
  inv,          \* the executor invocations: locals and position of each call
  userApiKeys,  \* App state: the ordered credential pool
  keyStatuses,  \* App state: Record<string, KeyStatus>
  job,          \* the last service function applied: its arguments and its result
  isAuthenticated,     \* App state
  appState,            \* App state: LOCKED, IDLE, ANALYZING, ...
  handler,             \* the position of each handler that awaits the service
  savedStructures,     \* App state: the writing structures shown
  selectedStructureId, \* App state: 'auto' or the id of a structure
  cloud,               \* the structures of the user in the cloud store
  requests             \* the requests to the cloud store that are in flight

sessionVars == <<isAuthenticated, appState, handler>>

structureVars == <<savedStructures, selectedStructureId, cloud, requests>>

uiVars == <<sessionVars, structureVars>>

vars == <<inv, userApiKeys, keyStatuses, job, uiVars>>

----------------------------------------------------------------------------
(* Bounds *)

MaxKeys == 3     \* longest credential list handed to the executor directly
MaxPool == 2     \* longest credential pool built through the UI
MaxFaults == 3   \* failed operation calls the service answers while calls overlap

\* invocation slots, one for each handler that calls the service: the calls
\* of the executor can overlap
Invs == {1, 2, 3}

----------------------------------------------------------------------------
(* Strings *)

IsSpace(c) == c = " "

RECURSIVE TrimStart(_)
TrimStart(s) ==
  IF s # <<>> /\ IsSpace(Head(s)) THEN TrimStart(Tail(s)) ELSE s

RECURSIVE TrimEnd(_)
TrimEnd(s) ==
  IF s # <<>> /\ IsSpace(s[Len(s)]) THEN TrimEnd(SubSeq(s, 1, Len(s) - 1)) ELSE s

\* String.prototype.trim
Trim(s) == TrimEnd(TrimStart(s))

\* String.prototype.split(sep) for a one-character separator
RECURSIVE SplitAcc(_, _, _)
SplitAcc(s, sep, cur) ==
  IF s = <<>> THEN <<cur>>
  ELSE IF Head(s) = sep THEN <<cur>> \o SplitAcc(Tail(s), sep, <<>>)
  ELSE SplitAcc(Tail(s), sep, Append(cur, Head(s)))

Split(s, sep) == SplitAcc(s, sep, <<>>)

MapTrim(list) == [k \in 1..Len(list) |-> Trim(list[k])]

KeyA == <<"a">>
KeyB == <<"b">>
KeyBlank == <<" ">>

\* credential strings handed to the executor
KeyValues == {KeyA, KeyB, KeyBlank}

SeqsUpTo(S, n) == UNION {[1..m -> S] : m \in 0..n}

KeyLists == SeqsUpTo(KeyValues, MaxKeys)

\* VITE_API_KEY || process.env.API_KEY: undefined, or a comma separated string
EnvUndefined == <<"undefined">>
EnvValues ==
  { EnvUndefined, <<>>, <<"a">>, <<"a", ",", " ", "b">>, <<" ">>, <<",">> }

EnvTruthy(env) == env # EnvUndefined /\ env # <<>>

----------------------------------------------------------------------------
(* Errors *)

\* a thrown value: message is error.message (empty when absent), text is
\* error.toString()
ErrorObject(message) == [message |-> message, text |-> <<"Error:">> \o message]
ThrownString(s) == [message |-> <<>>, text |-> s]

E503 == ErrorObject(<<"503", "Service", "Unavailable">>)
EOverloaded == ErrorObject(<<"The", "model", "is", "overloaded">>)
EInternal == ErrorObject(<<"Internal error">>)
E429 == ErrorObject(<<"429", "Too", "Many", "Requests">>)
EResourceExhausted == ErrorObject(<<"RESOURCE_EXHAUSTED">>)
EQuotaString == ThrownString(<<"quota", "exceeded">>)
EBoth == ErrorObject(<<"503", "quota">>)
EBadRequest == ErrorObject(<<"400", "Bad", "Request">>)

TransientErrors == {E503, EOverloaded, EInternal, EBoth}
QuotaErrors == {E429, EResourceExhausted, EQuotaString}
OtherErrors == {EBadRequest}
OpErrors == TransientErrors \cup QuotaErrors \cup OtherErrors

NoKeysError ==
  ErrorObject(<<"No API Keys provided.", "Please add at least one Gemini API Key.">>)
AggregateError ==
  ErrorObject(<<"All provided API Keys failed or Server is currently unavailable.">>)

\* const msg = error.message || error.toString();
ErrMsg(error) == IF error.message # <<>> THEN error.message ELSE error.text

Includes(msg, w) == \E k \in 1..Len(msg) : msg[k] = w

IsOverload(msg) ==
  Includes(msg, "503") \/ Includes(msg, "overloaded") \/ Includes(msg, "Internal error")

IsQuota(msg) ==
  Includes(msg, "429") \/ Includes(msg, "RESOURCE_EXHAUSTED") \/ Includes(msg, "quota")

\* mutant: the quota test made before the overload test
Classify_quotaFirst(error) ==
  IF IsQuota(ErrMsg(error)) THEN "quota"
  ELSE IF IsOverload(ErrMsg(error)) THEN "transient"
  ELSE "fatal"

\* the order of the two tests in the catch block
Classify(error) ==
  IF IsOverload(ErrMsg(error)) THEN "transient"
  ELSE IF IsQuota(ErrMsg(error)) THEN "quota"
  ELSE "fatal"

----------------------------------------------------------------------------
(* executeWithKeyRotation *)

Results == {"r1", "r2"}

\* mutants of the retry budget: one attempt short, one attempt long
InitialRetries_two == 3 - 1
InitialRetries_four == 3 + 1

InitialRetries == 3

Returned(v) == [kind |-> "return", value |-> v, error |-> ThrownString(<<>>)]
Thrown(e) == [kind |-> "throw", value |-> "", error |-> e]

\* no service function has been applied yet; a behaviour applies one, once
NoJob == [op |-> "none"]

IdleInv ==
  [ pc |-> "idle", given |-> <<>>, keysToUse |-> <<>>, hasCb |-> FALSE,
    idx |-> 0, retries |-> 0, lastError |-> <<>>, calls |-> <<>>,
    cbs |-> <<>>, raised |-> <<>>, outcome |-> <<>> ]

\* let keysToUse = apiKeys; ... the environment fallback
KeysToUse(apiKeys, env) ==
  IF Len(apiKeys) = 0 /\ EnvTruthy(env) THEN MapTrim(Split(env, ",")) ELSE apiKeys

\* mutant: rotation that passes over the credentials already recorded as expired
NextKey_skipExpired(keys, from) ==
  LET cand == {k \in (from + 1)..Len(keys) :
                 /\ Trim(keys[k]) # <<>>
                 /\ ~(keys[k] \in DOMAIN keyStatuses /\ keyStatuses[keys[k]] = "expired")}
  IN IF cand = {} THEN 0 ELSE CHOOSE k \in cand : \A m \in cand : k <= m

\* for (const apiKey of keysToUse) { if (!apiKey.trim()) continue; ...
\* the index of the next entry after `from` that is not blank, 0 if none
NextKey(keys, from) ==
  LET cand == {k \in (from + 1)..Len(keys) : Trim(keys[k]) # <<>>}
  IN IF cand = {} THEN 0 ELSE CHOOSE k \in cand : \A m \in cand : k <= m

\* const result = await operation(ai): the call is issued and awaited
StartCall(r, k) ==
  [r EXCEPT !.pc = "call", !.idx = k,
            !.calls = Append(@, [idx |-> k, key |-> r.keysToUse[k], outcome |-> "pending", value |-> ""])]

\* throw lastError || new Error("All provided API Keys failed ...")
FinalThrow(r) ==
  [r EXCEPT !.pc = "done",
            !.outcome = <<Thrown(IF r.lastError # <<>> THEN r.lastError[1] ELSE AggregateError)>>]

\* leaving the retry loop of the current key: the next iteration of the for
\* loop, or the throw behind it
Rotate(r) ==
  LET k == NextKey(r.keysToUse, r.idx)
  IN IF k = 0 THEN FinalThrow(r)
     ELSE [StartCall(r, k) EXCEPT !.retries = InitialRetries]

\* the pending call settles: its outcome is logged (calls is the history of
\* the operation calls, raised the value the last rejected one threw)
Settle(r, o, v) ==
  [r EXCEPT !.calls[Len(r.calls)].outcome = o, !.calls[Len(r.calls)].value = v]

Reject(r, o, e) == [Settle(r, o, "") EXCEPT !.raised = <<e>>]

\* if (onStatusUpdate) onStatusUpdate(apiKey, status)
Notify(r, status) ==
  IF r.hasCb
    THEN [r EXCEPT !.cbs = Append(@, [idx |-> r.idx, key |-> r.keysToUse[r.idx], status |-> status])]
    ELSE r

\* App.handleKeyStatusUpdate: setKeyStatuses(prev => ({...prev, [key]: status}))
handleKeyStatusUpdate(statuses, key, status) ==
  [k \in DOMAIN statuses \cup {key} |-> IF k = key THEN status ELSE statuses[k]]

StatusesAfter(r, status) ==
  IF r.hasCb THEN handleKeyStatusUpdate(keyStatuses, r.keysToUse[r.idx], status)
  ELSE keyStatuses

\* executeWithKeyRotation from its entry up to its first await (or its throw)
Begin(apiKeys, env, hasCb) ==
  LET keys == KeysToUse(apiKeys, env)
      r0 == [IdleInv EXCEPT !.given = apiKeys, !.keysToUse = keys, !.hasCb = hasCb]
  IN IF Len(keys) = 0
       THEN [r0 EXCEPT !.pc = "done", !.outcome = <<Thrown(NoKeysError)>>]
       ELSE Rotate(r0)

\* a caller invokes the executor on a credential list of its own
Invoke(i) ==
  /\ inv[i].pc = "idle"
  /\ \E apiKeys \in KeyLists, env \in EnvValues, hasCb \in BOOLEAN :
       inv' = [inv EXCEPT ![i] = Begin(apiKeys, env, hasCb)]
  /\ UNCHANGED <<userApiKeys, keyStatuses, job, uiVars>>

\* mutant: the success path without the 'active' callback
OpSucceeds_unmarked(i, v) ==
  /\ inv[i].pc = "call"
  /\ inv' = [inv EXCEPT ![i] =
       [Settle(inv[i], "ok", v) EXCEPT !.pc = "done", !.outcome = <<Returned(v)>>]]
  /\ UNCHANGED <<userApiKeys, keyStatuses, job, uiVars>>

\* the awaited operation resolves
OpSucceeds(i, v) ==
  /\ inv[i].pc = "call"
  /\ LET r == inv[i]
     IN /\ inv' = [inv EXCEPT ![i] =
                [Notify(Settle(r, "ok", v), "active") EXCEPT !.pc = "done", !.outcome = <<Returned(v)>>]]
        /\ keyStatuses' = StatusesAfter(r, "active")
  /\ UNCHANGED <<userApiKeys, job, uiVars>>

\* mutant: the last overload error of a key is not kept in lastError
OpOverloaded_noLastError(i, e) ==
  /\ inv[i].pc = "call"
  /\ Classify(e) = "transient"
  /\ LET r == Reject(inv[i], "transient", e)
     IN inv' = [inv EXCEPT ![i] =
                  IF r.retries - 1 = 0
                    THEN Rotate([r EXCEPT !.retries = 0])
                    ELSE [r EXCEPT !.retries = @ - 1, !.pc = "delay"]]
  /\ UNCHANGED <<userApiKeys, keyStatuses, job, uiVars>>

\* mutant: the retry loop gives up one failure late (retries < 0)
OpOverloaded_offByOne(i, e) ==
  /\ inv[i].pc = "call"
  /\ Classify(e) = "transient"
  /\ LET r == Reject(inv[i], "transient", e)
     IN inv' = [inv EXCEPT ![i] =
                  IF r.retries - 1 < 0
                    THEN Rotate([r EXCEPT !.retries = 0, !.lastError = <<e>>])
                    ELSE [r EXCEPT !.retries = @ - 1, !.pc = "delay"]]
  /\ UNCHANGED <<userApiKeys, keyStatuses, job, uiVars>>

\* mutant: a key that ran out of retries on overload is reported 'expired'
OpOverloaded_expires(i, e) ==
  /\ inv[i].pc = "call"
  /\ Classify(e) = "transient"
  /\ LET r == Reject(inv[i], "transient", e)
     IN IF r.retries - 1 = 0
          THEN /\ inv' = [inv EXCEPT ![i] =
                      Rotate([Notify(r, "expired") EXCEPT !.retries = 0, !.lastError = <<e>>])]
               /\ keyStatuses' = StatusesAfter(r, "expired")
          ELSE /\ inv' = [inv EXCEPT ![i] = [r EXCEPT !.retries = @ - 1, !.pc = "delay"]]
               /\ UNCHANGED keyStatuses
  /\ UNCHANGED <<userApiKeys, job, uiVars>>

\* the awaited operation rejects with an overload error
OpOverloaded(i, e) ==
  /\ inv[i].pc = "call"
  /\ Classify(e) = "transient"
  /\ LET r == Reject(inv[i], "transient", e)
     IN inv' = [inv EXCEPT ![i] =
                  IF r.retries - 1 = 0
                    THEN Rotate([r EXCEPT !.retries = 0, !.lastError = <<e>>])
                    ELSE [r EXCEPT !.retries = @ - 1, !.pc = "delay"]]
  /\ UNCHANGED <<userApiKeys, keyStatuses, job, uiVars>>

\* mutant: a quota error handled like an overload, retried on the same key
OpQuota_sameKey(i, e) ==
  /\ inv[i].pc = "call"
  /\ Classify(e) = "quota"
  /\ LET r == Reject(inv[i], "quota", e)
     IN inv' = [inv EXCEPT ![i] =
                  IF r.retries - 1 = 0
                    THEN Rotate([r EXCEPT !.retries = 0, !.lastError = <<e>>])
                    ELSE [r EXCEPT !.retries = @ - 1, !.pc = "delay"]]
  /\ UNCHANGED <<userApiKeys, keyStatuses, job, uiVars>>

\* mutant: rotation on a quota error without the 'expired' callback
OpQuota_silent(i, e) ==
  /\ inv[i].pc = "call"
  /\ Classify(e) = "quota"
  /\ inv' = [inv EXCEPT ![i] =
       Rotate([Reject(inv[i], "quota", e) EXCEPT !.lastError = <<e>>])]
  /\ UNCHANGED <<userApiKeys, keyStatuses, job, uiVars>>

\* the awaited operation rejects with a quota error
OpQuota(i, e) ==
  /\ inv[i].pc = "call"
  /\ Classify(e) = "quota"
  /\ LET r == inv[i]
     IN /\ inv' = [inv EXCEPT ![i] =
                Rotate([Notify(Reject(r, "quota", e), "expired") EXCEPT !.lastError = <<e>>])]
        /\ keyStatuses' = StatusesAfter(r, "expired")
  /\ UNCHANGED <<userApiKeys, job, uiVars>>

\* mutant: an unclassified error rotates to the next key instead of throwing
OpFatal_rotates(i, e) ==
  /\ inv[i].pc = "call"
  /\ Classify(e) = "fatal"
  /\ inv' = [inv EXCEPT ![i] =
       Rotate([Reject(inv[i], "fatal", e) EXCEPT !.lastError = <<e>>])]
  /\ UNCHANGED <<userApiKeys, keyStatuses, job, uiVars>>

\* the awaited operation rejects with any other error
OpFatal(i, e) ==
  /\ inv[i].pc = "call"
  /\ Classify(e) = "fatal"
  /\ inv' = [inv EXCEPT ![i] =
       [Reject(inv[i], "fatal", e) EXCEPT !.pc = "done", !.outcome = <<Thrown(e)>>]]
  /\ UNCHANGED <<userApiKeys, keyStatuses, job, uiVars>>

\* await delay(2000 + Math.random() * 1000) is over; continue the while loop
DelayElapses(i) ==
  /\ inv[i].pc = "delay"
  /\ inv' = [inv EXCEPT ![i] = StartCall(inv[i], inv[i].idx)]
  /\ UNCHANGED <<userApiKeys, keyStatuses, job, uiVars>>

----------------------------------------------------------------------------
(* App.tsx: the credential pool and the handlers that call the executor *)

\* what the user types into the key field
KeyInputs == {KeyA, KeyB, <<" ", "b">>, KeyBlank}

\* errors the service answers with while two calls overlap
AppErrors == {E503, E429, EBadRequest}
AppResults == {"r1"}

\* the main screen is rendered: the render gate returns the admin panel or
\* the login screen for the other two values of appState
MainScreen == appState \notin {"LOCKED", "ADMIN_DASHBOARD"}

\* no handler is waiting to go on behind a call of the service that has
\* ended: such a continuation runs before the next event is handled
NoContinuation ==
  \A i \in Invs : ~(handler[i] = "awaiting" /\ inv[i].pc = "done")

\* a user event on the main screen
MainScreenEvent == MainScreen /\ NoContinuation

handleAddApiKey(input) ==
  /\ MainScreenEvent
  /\ Trim(input) # <<>>
  /\ Len(userApiKeys) < MaxPool
  /\ userApiKeys' = Append(userApiKeys, Trim(input))
  /\ keyStatuses' = handleKeyStatusUpdate(keyStatuses, Trim(input), "ready")
  /\ UNCHANGED <<inv, job, uiVars>>

RemoveAt(list, index) ==
  [k \in 1..(Len(list) - 1) |-> IF k < index THEN list[k] ELSE list[k + 1]]

handleRemoveApiKey(index) ==
  /\ MainScreenEvent
  /\ index \in 1..Len(userApiKeys)
  /\ keyStatuses' = [k \in DOMAIN keyStatuses \ {userApiKeys[index]} |-> keyStatuses[k]]
  /\ userApiKeys' = RemoveAt(userApiKeys, index)
  /\ UNCHANGED <<inv, job, uiVars>>

\* checkApiKeys() of the handlers
checkApiKeys == Len(userApiKeys) # 0

\* the value of appState while the handler of slot i awaits the service
Loading(i) ==
  CASE i = 1 -> "ANALYZING"
    [] i = 2 -> "GENERATING"
    [] i = 3 -> "SUGGESTING_LOCATIONS"

\* a handler up to its await: its button is disabled only while appState is
\* its own loading state; it sets that state and passes userApiKeys and
\* handleKeyStatusUpdate to the service
CallService(i) ==
  /\ MainScreenEvent
  /\ appState # Loading(i)
  /\ handler[i] = "idle"
  /\ inv[i].pc = "idle"
  /\ checkApiKeys
  /\ appState' = Loading(i)
  /\ handler' = [handler EXCEPT ![i] = "awaiting"]
  /\ inv' = [inv EXCEPT ![i] = Begin(userApiKeys, EnvUndefined, TRUE)]
  /\ UNCHANGED <<userApiKeys, keyStatuses, job, isAuthenticated, structureVars>>

\* setAppState(ANALYZING); await analyzeTranscript(userApiKeys, ...,
\* handleKeyStatusUpdate)
handleAnalyze == CallService(1)

\* setAppState(GENERATING); await generateScript(userApiKeys, ...,
\* handleKeyStatusUpdate); its button is disabled only while appState is
\* GENERATING, and the Analyze button only while it is ANALYZING, so either
\* call can start while the other is in flight
handleGenerate == CallService(2)

\* setAppState(SUGGESTING_LOCATIONS); await suggestTravelLocations(
\* userApiKeys, ..., handleKeyStatusUpdate)
handleLocationSearch == CallService(3)

\* the call of the service has ended and the handler goes on behind its
\* await: try or catch, and finally { setAppState(IDLE) }
HandlerResumes(i) ==
  /\ handler[i] = "awaiting"
  /\ inv[i].pc = "done"
  /\ appState' = "IDLE"
  /\ handler' = [handler EXCEPT ![i] = "finished"]
  /\ UNCHANGED <<inv, userApiKeys, keyStatuses, job, isAuthenticated, structureVars>>

\* the credential lists the cloud store or localStorage can hold for the user
StoredKeyLists == {<<>>, <<KeyA>>, <<KeyA, KeyB>>}

\* handleLogin with a licence key that authenticates as a user, from the
\* point where getUserApiKeys has answered: the stored keys become the pool
\* (an empty pool when there are none)
handleLogin(storedKeys) ==
  /\ appState = "LOCKED"
  /\ NoContinuation
  /\ userApiKeys' = storedKeys
  /\ isAuthenticated' = TRUE
  /\ appState' = "IDLE"
  /\ UNCHANGED <<inv, keyStatuses, job, handler, structureVars>>

handleLogout ==
  /\ MainScreenEvent
  /\ userApiKeys' = <<>>
  /\ isAuthenticated' = FALSE
  /\ appState' = "LOCKED"
  /\ savedStructures' = <<>>
  /\ UNCHANGED <<inv, keyStatuses, job, handler, selectedStructureId, cloud, requests>>

----------------------------------------------------------------------------
(* App.tsx: the writing structures of a cloud user *)

MaxStructures == 2   \* most structures the user creates
MaxDeletes == 1      \* most deletions in flight at a time

StructureNames == {"Review", "Vlog"}

\* the document ids the cloud store gives out, in order
StructureIds == <<"s1", "s2", "s3", "s4">>

\* a structure: the id the cloud store gave it, and its name
Structure(id, name) == [id |-> id, name |-> name]

\* the cloud store: the documents of the user and the number of ids issued
NoDocuments == [structures |-> <<>>, issued |-> 0]

Ids(list) == {list[k].id : k \in 1..Len(list)}

\* list.filter(s => s.id !== id)
RECURSIVE WithoutId(_, _)
WithoutId(list, id) ==
  IF list = <<>> THEN <<>>
  ELSE IF Head(list).id = id THEN WithoutId(Tail(list), id)
  ELSE <<Head(list)>> \o WithoutId(Tail(list), id)

\* list.map(s => s.id === id ? { ...s, ...updates } : s)
Updated(list, id, name) ==
  [k \in 1..Len(list) |-> IF list[k].id = id THEN [list[k] EXCEPT !.name = name] ELSE list[k]]

\* isSavingStructure: a save is in flight and the Save button is disabled
isSavingStructure == \E q \in requests : q.kind \in {"create", "update"}

\* handleSaveStructure up to its await, with a valid form: editingStructureId
\* is null (create) or the id of the structure being edited (update)
handleSaveStructure(editingStructureId, name) ==
  /\ MainScreenEvent
  /\ ~isSavingStructure
  /\ IF editingStructureId = "null"
       THEN /\ cloud.issued < MaxStructures
            /\ requests' = requests \cup {[kind |-> "create", id |-> "", name |-> name, prev |-> <<>>]}
       ELSE /\ editingStructureId \in Ids(savedStructures)
            /\ requests' = requests \cup
                 {[kind |-> "update", id |-> editingStructureId, name |-> name, prev |-> <<>>]}
  /\ UNCHANGED <<inv, userApiKeys, keyStatuses, job, sessionVars,
                 savedStructures, selectedStructureId, cloud>>

\* saveStructureToCloud or updateStructureInCloud has answered and
\* handleSaveStructure goes on: a new structure is put first and selected
StructureSaved(q) ==
  /\ q \in requests
  /\ q.kind \in {"create", "update"}
  /\ requests' = requests \ {q}
  /\ IF q.kind = "create"
       THEN LET saved == Structure(StructureIds[cloud.issued + 1], q.name)
            IN /\ cloud' = [structures |-> <<saved>> \o cloud.structures,
                            issued |-> cloud.issued + 1]
               /\ savedStructures' = <<saved>> \o savedStructures
               /\ selectedStructureId' = saved.id
       ELSE /\ cloud' = [cloud EXCEPT !.structures = Updated(@, q.id, q.name)]
            /\ savedStructures' = Updated(savedStructures, q.id, q.name)
            /\ UNCHANGED selectedStructureId
  /\ UNCHANGED <<inv, userApiKeys, keyStatuses, job, sessionVars>>

\* the request of handleSaveStructure has failed: the catch block alerts
StructureSaveFailed(q) ==
  /\ q \in requests
  /\ q.kind \in {"create", "update"}
  /\ requests' = requests \ {q}
  /\ UNCHANGED <<inv, userApiKeys, keyStatuses, job, sessionVars,
                 savedStructures, selectedStructureId, cloud>>

\* the select element: 'auto' or one of the structures shown
selectStructure(id) ==
  /\ MainScreenEvent
  /\ id \in {"auto"} \cup Ids(savedStructures)
  /\ selectedStructureId' = id
  /\ UNCHANGED <<inv, userApiKeys, keyStatuses, job, sessionVars,
                 savedStructures, cloud, requests>>

\* handleDeleteStructure up to its await; its button is shown for the
\* selected structure
handleDeleteStructure(id) ==
  /\ MainScreenEvent
  /\ selectedStructureId # "auto"
  /\ id = selectedStructureId
  /\ Cardinality({q \in requests : q.kind = "delete"}) < MaxDeletes
  /\ savedStructures' = WithoutId(savedStructures, id)
  /\ selectedStructureId' = IF selectedStructureId = id THEN "auto" ELSE selectedStructureId
  /\ requests' = requests \cup {[kind |-> "delete", id |-> id, name |-> "", prev |-> savedStructures]}
  /\ UNCHANGED <<inv, userApiKeys, keyStatuses, job, sessionVars, cloud>>

\* deleteStructureFromCloud has answered
StructureDeleted(q) ==
  /\ q \in requests
  /\ q.kind = "delete"
  /\ requests' = requests \ {q}
  /\ cloud' = [cloud EXCEPT !.structures = WithoutId(@, q.id)]
  /\ UNCHANGED <<inv, userApiKeys, keyStatuses, job, sessionVars,
                 savedStructures, selectedStructureId>>

\* deleteStructureFromCloud has failed: setSavedStructures(prev)
StructureDeleteFailed(q) ==
  /\ q \in requests
  /\ q.kind = "delete"
  /\ requests' = requests \ {q}
  /\ savedStructures' = q.prev
  /\ UNCHANGED <<inv, userApiKeys, keyStatuses, job, sessionVars,
                 selectedStructureId, cloud>>

\* the effect loadUserData, from the point where getUserStructures has
\* answered: setSavedStructures(cloudStructures).  The effect runs again
\* after every change of isAuthenticated or appState, which the user causes
\* at any time by starting a handler
loadUserData ==
  /\ isAuthenticated
  /\ appState # "LOCKED"
  /\ savedStructures # cloud.structures
  /\ savedStructures' = cloud.structures
  /\ UNCHANGED <<inv, userApiKeys, keyStatuses, job, sessionVars,
                 selectedStructureId, cloud, requests>>

----------------------------------------------------------------------------
(* Vocabulary of the properties *)

Started(r) == r.pc # "idle"

\* the positions of the credentials (the entries that are not blank), in order
CredIdx(keys) == {k \in 1..Len(keys) : Trim(keys[k]) # <<>>}

CredSeq(keys) ==
  LET S == CredIdx(keys)
  IN [n \in 1..Cardinality(S) |-> CHOOSE k \in S : Cardinality({m \in S : m < k}) = n - 1]

\* the calls of the operation made on the credential at position k
CallsOn(r, k) == {n \in 1..Len(r.calls) : r.calls[n].idx = k}

OutcomesOn(r, k) == {r.calls[n].outcome : n \in CallsOn(r, k)}

Called(r) == {r.calls[n].idx : n \in 1..Len(r.calls)}

\* the executor has left the credential at position k
Left(r, k) == r.pc = "done" \/ \E n \in 1..Len(r.calls) : r.calls[n].idx > k

CbsOn(r, k, status) ==
  {n \in 1..Len(r.cbs) : r.cbs[n].idx = k /\ r.cbs[n].status = status}

LastCall(r) == r.calls[Len(r.calls)]

----------------------------------------------------------------------------
(* C1: rotation order *)

\* the operation has so far answered quota exhaustion or success only
QuotaThenSuccess(r) ==
  \A n \in 1..Len(r.calls) : r.calls[n].outcome \in {"quota", "ok", "pending"}

RotationOrder(r) ==
  LET creds == CredSeq(r.keysToUse)
      n == Len(r.calls)
      settled == {m \in 1..n : r.calls[m].outcome # "pending"}
  IN /\ n <= Len(creds)
     /\ n = 0 => Len(creds) = 0
     /\ \A m \in 1..n :
          /\ r.calls[m].idx = creds[m]
          /\ r.calls[m].key = r.keysToUse[creds[m]]
     /\ \A m \in 1..(n - 1) : r.calls[m].outcome = "quota"
     /\ (n > 0 /\ LastCall(r).outcome = "ok") =>
          r.pc = "done" /\ r.outcome = <<Returned(LastCall(r).value)>>
     /\ (n > 0 /\ LastCall(r).outcome = "quota") =>
          r.pc = "done" /\ n = Len(creds)
     /\ r.hasCb =>
          r.cbs = [m \in 1..Cardinality(settled) |->
                     [ idx |-> creds[m], key |-> r.keysToUse[creds[m]],
                       status |-> IF r.calls[m].outcome = "quota" THEN "expired" ELSE "active" ]]

\* C1: while the operation fails with quota exhaustion on the first k
\* credentials and succeeds on credential k+1, the executor calls it exactly
\* once on each of the credentials 1..k+1 in list order, returns the result of
\* the call on credential k+1, and the status callback has recorded exactly
\* credentials 1..k as 'expired' and credential k+1 as 'active'.
C1_RotationOrder ==
  \A i \in Invs :
    (Started(inv[i]) /\ QuotaThenSuccess(inv[i])) => RotationOrder(inv[i])

C1_Witness ==
  LET r == inv[1]
  IN /\ r.pc = "done" /\ r.hasCb /\ Len(r.calls) = 3
     /\ r.calls[1].outcome = "quota" /\ r.calls[2].outcome = "quota"
     /\ r.calls[3].outcome = "ok"
     /\ r.calls[1].key # r.calls[2].key
     /\ Len(r.cbs) = 3

----------------------------------------------------------------------------
(* C2: same-key retry *)

SameKeyRetry(r) ==
  /\ \A n \in 1..Len(r.calls) :
       r.calls[n].outcome = "ok" =>
         LET k == r.calls[n].idx
             mine == CallsOn(r, k)
             fails == {m \in mine : r.calls[m].outcome = "transient"}
         IN /\ n = Len(r.calls)
            /\ r.pc = "done" /\ r.outcome = <<Returned(r.calls[n].value)>>
            /\ Cardinality(fails) < 3
            /\ Cardinality(mine) = Cardinality(fails) + 1
            /\ mine = (n - Cardinality(fails))..n
            /\ \A m \in 1..Len(r.calls) : r.calls[m].idx <= k
  \* fewer than 3 transient failures and nothing else: the executor is still
  \* on that credential, waiting to call it again
  /\ \A k \in Called(r) :
       (OutcomesOn(r, k) = {"transient"} /\ Cardinality(CallsOn(r, k)) < 3) =>
         r.idx = k /\ r.pc = "delay"
  /\ r.pc = "delay" => OutcomesOn(r, r.idx) = {"transient"}
  /\ r.pc = "call" => LastCall(r).outcome = "pending" /\ LastCall(r).idx = r.idx

\* C2: when the operation fails with a transient overload fewer than 3
\* consecutive times on a credential and then succeeds on it, the executor
\* returns that result, having called the operation failures + 1 times on that
\* credential, consecutively, and on no later credential.
C2_SameKeyRetry == \A i \in Invs : Started(inv[i]) => SameKeyRetry(inv[i])

C2_Witness ==
  LET r == inv[1]
  IN /\ r.pc = "done" /\ Cardinality(CredIdx(r.keysToUse)) = 2 /\ Len(r.calls) = 3
     /\ r.calls[1].outcome = "transient" /\ r.calls[2].outcome = "transient"
     /\ r.calls[3].outcome = "ok"
     /\ r.outcome = <<Returned(r.calls[3].value)>>

----------------------------------------------------------------------------
(* C3: retry ceiling *)

TransientOnly(r) ==
  \A n \in 1..Len(r.calls) : r.calls[n].outcome \in {"transient", "pending"}

RetryCeiling(r) ==
  /\ \A k \in Called(r) : Cardinality(CallsOn(r, k)) <= 3
  /\ \A k \in Called(r) :
       (Left(r, k) /\ OutcomesOn(r, k) = {"transient"}) =>
         /\ Cardinality(CallsOn(r, k)) = 3
         /\ \A k2 \in CredIdx(r.keysToUse) :
              (k2 > k /\ \A k3 \in CredIdx(r.keysToUse) : ~(k < k3 /\ k3 < k2))
                => k2 \in Called(r)

SingleCredential(r) == Cardinality(CredIdx(r.keysToUse)) = 1

\* C3 as amended: at most 3 calls on any one credential; a credential whose
\* attempts all fail with transient overload is left only after 3 calls, and
\* then the next credential is called; with a single credential the failure
\* surfaces on the 3rd consecutive transient failure.
C3_RetryCeiling ==
  \A i \in Invs :
    Started(inv[i]) =>
      /\ RetryCeiling(inv[i])
      /\ (SingleCredential(inv[i]) /\ TransientOnly(inv[i])) =>
           /\ inv[i].pc = "done" <=>
                (Len(inv[i].calls) = 3 /\ LastCall(inv[i]).outcome = "transient")
           /\ inv[i].pc = "done" => inv[i].outcome[1].kind = "throw"

\* C3 as stated: ... with a single credential the failure surfaces on the 4th
\* consecutive transient failure (not before it).
C3_Original ==
  \A i \in Invs :
    Started(inv[i]) =>
      /\ RetryCeiling(inv[i])
      /\ (SingleCredential(inv[i]) /\ TransientOnly(inv[i]) /\ Len(inv[i].calls) < 4) =>
           inv[i].pc # "done"

C3_Witness ==
  LET r == inv[1]
  IN /\ SingleCredential(r) /\ TransientOnly(r) /\ Len(r.calls) = 3
     /\ r.pc = "done" /\ r.outcome[1].kind = "throw"

----------------------------------------------------------------------------
(* C4: fatal errors short-circuit *)

FatalShortCircuit(r) ==
  \A n \in 1..Len(r.calls) :
    r.calls[n].outcome = "fatal" =>
      /\ n = Len(r.calls)
      /\ r.pc = "done"
      /\ r.outcome = <<Thrown(r.raised[1])>>
      /\ Classify(r.raised[1]) = "fatal"
      /\ \A m \in 1..Len(r.cbs) : r.cbs[m].idx # r.calls[n].idx

\* C4: an operation error that is neither transient overload nor quota
\* exhaustion, on any credential and at any attempt, is propagated at once:
\* the failed call is the last call of the invocation, the executor ends
\* throwing that same error, and no status callback was issued for the
\* credential it occurred on.
C4_FatalShortCircuit == \A i \in Invs : Started(inv[i]) => FatalShortCircuit(inv[i])

C4_Witness ==
  LET r == inv[1]
  IN /\ r.pc = "done" /\ r.hasCb /\ Len(r.calls) = 3
     /\ Cardinality(CredIdx(r.keysToUse)) = 3
     /\ r.calls[1].outcome = "quota" /\ r.calls[2].outcome = "transient"
     /\ r.calls[3].outcome = "fatal" /\ r.calls[3].idx = r.calls[2].idx
     /\ r.outcome = <<Thrown(EBadRequest)>>

----------------------------------------------------------------------------
(* C5: quota exhaustion *)

QuotaRotates(r) ==
  \A n \in 1..Len(r.calls) :
    r.calls[n].outcome = "quota" =>
      LET k == r.calls[n].idx
          later == {k2 \in CredIdx(r.keysToUse) : k2 > k}
      IN /\ r.hasCb =>
              /\ Cardinality(CbsOn(r, k, "expired")) = 1
              /\ \A m \in CbsOn(r, k, "expired") : r.cbs[m].key = r.calls[n].key
         /\ \A m \in CallsOn(r, k) : m <= n
         /\ IF later = {}
              THEN n = Len(r.calls) /\ r.pc = "done" /\ r.outcome[1].kind = "throw"
              ELSE /\ n < Len(r.calls)
                   /\ r.calls[n + 1].idx \in later
                   /\ \A k2 \in later : r.calls[n + 1].idx <= k2

\* C5: when the operation fails with a quota signal on a credential, the
\* status callback is invoked with (that credential, 'expired'), the operation
\* is not called on that credential again in the invocation, whatever number
\* of transient retries was left, and the next call is on the next credential
\* (the invocation fails if there is none).
C5_QuotaRotates == \A i \in Invs : Started(inv[i]) => QuotaRotates(inv[i])

C5_Witness ==
  LET r == inv[1]
  IN /\ r.hasCb /\ Len(r.calls) = 3
     /\ r.calls[1].outcome = "transient" /\ r.calls[2].outcome = "quota"
     /\ r.calls[2].idx = r.calls[1].idx /\ r.calls[3].idx > r.calls[2].idx
     /\ r.calls[3].key # r.calls[2].key

----------------------------------------------------------------------------
(* C6: success marking *)

SuccessMarking(r) ==
  /\ (Len(r.calls) > 0 /\ LastCall(r).outcome = "ok") =>
       /\ r.pc = "done"
       /\ r.hasCb =>
            /\ Len(r.cbs) > 0
            /\ r.cbs[Len(r.cbs)] =
                 [idx |-> LastCall(r).idx, key |-> LastCall(r).key, status |-> "active"]
            /\ keyStatuses[LastCall(r).key] = "active"
  /\ \A m \in 1..Len(r.cbs) :
       r.cbs[m].status = "active" =>
         /\ m = Len(r.cbs)
         /\ LastCall(r).outcome = "ok"
         /\ r.cbs[m].idx = LastCall(r).idx
  /\ r.outcome # <<>> /\ r.outcome[1].kind = "return" =>
       LastCall(r).outcome = "ok"

\* C6: when the operation succeeds on a credential the status callback is
\* invoked with (that credential, 'active') exactly once, before the executor
\* returns; it is the last status callback of the invocation and no other
\* credential is marked 'active' by the invocation.
C6_SuccessMarking == \A i \in Invs : Started(inv[i]) => SuccessMarking(inv[i])

C6_Witness ==
  LET r == inv[1]
  IN /\ r.pc = "done" /\ r.hasCb /\ Len(r.calls) = 2 /\ Len(r.cbs) = 2
     /\ r.calls[1].outcome = "quota" /\ r.calls[2].outcome = "ok"
     /\ r.cbs[1].status = "expired" /\ r.cbs[2].status = "active"
     /\ r.cbs[1].key # r.cbs[2].key

----------------------------------------------------------------------------
(* C7: pool exhaustion *)

\* every credential of the pool was called and was left on a quota failure or
\* on its third transient failure
PoolExhausted(r) ==
  /\ r.pc = "done"
  /\ CredIdx(r.keysToUse) # {}
  /\ \A k \in CredIdx(r.keysToUse) :
       \/ "quota" \in OutcomesOn(r, k)
       \/ OutcomesOn(r, k) = {"transient"} /\ Cardinality(CallsOn(r, k)) = 3

\* C7 as amended: when every credential has hit its retry ceiling or returned
\* quota exhaustion, the executor fails by re-throwing the error of the last
\* failed call (a quota or overload error of the service), for every mix of
\* quota and transient outcomes; the 'All provided API Keys failed' error is
\* thrown only when no call was made at all.
C7_PoolExhaustion ==
  \A i \in Invs :
    /\ PoolExhausted(inv[i]) =>
         /\ inv[i].outcome = <<Thrown(inv[i].raised[1])>>
         /\ Classify(inv[i].raised[1]) = LastCall(inv[i]).outcome
         /\ inv[i].outcome # <<Thrown(AggregateError)>>
    /\ (inv[i].pc = "done" /\ inv[i].outcome = <<Thrown(AggregateError)>>) =>
         inv[i].calls = <<>>

\* C7 as stated: pool exhaustion fails with the aggregate error saying that all
\* credentials failed or the service is unavailable.
C7_Original ==
  \A i \in Invs :
    PoolExhausted(inv[i]) => inv[i].outcome = <<Thrown(AggregateError)>>

C7_Witness ==
  LET r == inv[1]
  IN /\ PoolExhausted(r) /\ Cardinality(CredIdx(r.keysToUse)) = 3
     /\ "quota" \in OutcomesOn(r, r.calls[1].idx)
     /\ OutcomesOn(r, LastCall(r).idx) = {"transient"}
     /\ r.lastError # <<>> /\ r.outcome = <<Thrown(r.lastError[1])>>

----------------------------------------------------------------------------
(* C8: no credentials *)

\* C8 as stated: a credential list that is empty once its blank entries are
\* dropped, with no environment credential, fails with the no-credentials
\* error and the operation is never called.
C8_NoCredentials ==
  \A i \in Invs :
    (Started(inv[i]) /\ CredIdx(inv[i].given) = {} /\ inv[i].keysToUse = inv[i].given) =>
      /\ inv[i].pc = "done"
      /\ inv[i].outcome = <<Thrown(NoKeysError)>>
      /\ inv[i].calls = <<>>

----------------------------------------------------------------------------
(* C9: independent, sequential invocations *)

Sequential(r) ==
  /\ \A n \in 1..Len(r.calls) :
       r.calls[n].outcome = "pending" => n = Len(r.calls) /\ r.pc = "call"
  /\ \A n \in 1..(Len(r.calls) - 1) :
       /\ r.calls[n].idx <= r.calls[n + 1].idx
       /\ r.calls[n].outcome \in {"transient", "quota"}

\* the credentials called are the first ones of the list given at call time,
\* none skipped, each called with its own string
OwnListInOrder(r) ==
  LET creds == CredSeq(r.given)
      c == Cardinality(Called(r))
  IN /\ c <= Len(creds)
     /\ Called(r) = {creds[m] : m \in 1..c}
     /\ \A n \in 1..Len(r.calls) : r.calls[n].key = r.given[r.calls[n].idx]
     /\ Len(creds) > 0 => Len(r.calls) > 0 /\ r.calls[1].idx = creds[1]

\* C9: within one invocation at most one operation call is in flight, and a
\* credential is first called only after the last call on the one before it
\* has failed; with two overlapping invocations, pool edits and status writes,
\* each invocation tries the credentials of the list it was given at call
\* time, in order from the first one.
C9_IndependentSequential ==
  \A i \in Invs : Started(inv[i]) => Sequential(inv[i]) /\ OwnListInOrder(inv[i])

\* both invocations in flight on different lists, the pool edited since, and
\* the second one calling a credential that is already recorded as expired
C9_Witness ==
  /\ inv[1].pc \in {"call", "delay"} /\ inv[2].pc = "call"
  /\ inv[1].given # inv[2].given
  /\ inv[1].given # userApiKeys
  /\ Len(inv[1].calls) >= 2
  /\ Len(inv[2].calls) = 1
  /\ inv[2].calls[1].key \in DOMAIN keyStatuses
  /\ keyStatuses[inv[2].calls[1].key] = "expired"

----------------------------------------------------------------------------
(* C10: termination *)

Success(r) == LastCall(r).outcome = "ok" /\ r.outcome[1].kind = "return"

FatalEnd(r) == LastCall(r).outcome = "fatal" /\ r.outcome[1].kind = "throw"

Exhausted(r) ==
  /\ r.outcome[1].kind = "throw"
  /\ \A k \in CredIdx(r.keysToUse) :
       \/ "quota" \in OutcomesOn(r, k)
       \/ OutcomesOn(r, k) = {"transient"} /\ Cardinality(CallsOn(r, k)) = 3

Ended(r) ==
  /\ r.pc = "done"
  /\ IF r.calls = <<>> THEN Exhausted(r)
     ELSE \/ Success(r) /\ ~FatalEnd(r) /\ ~Exhausted(r)
          \/ ~Success(r) /\ FatalEnd(r) /\ ~Exhausted(r)
          \/ ~Success(r) /\ ~FatalEnd(r) /\ Exhausted(r)

BoundedCalls(r) ==
  /\ Len(r.calls) <= 3 * Cardinality(CredIdx(r.keysToUse))
  /\ \A n \in 1..(Len(r.calls) - 1) : r.calls[n].idx <= r.calls[n + 1].idx
  /\ r.pc = "done" => Ended(r)

\* C10: when every operation call and every backoff delay completes, an
\* invocation over n credentials makes at most 3*n operation calls, never
\* goes back to a credential it has left, and eventually ends in exactly one
\* of success, a propagated fatal error, or pool exhaustion.
C10_Termination ==
  /\ [](\A i \in Invs : Started(inv[i]) => BoundedCalls(inv[i]))
  /\ Started(inv[1]) ~> Ended(inv[1])

C10_Witness ==
  LET r == inv[1]
  IN /\ Ended(r) /\ Exhausted(r)
     /\ Cardinality(CredIdx(r.keysToUse)) = 3
     /\ Len(r.calls) = 9

----------------------------------------------------------------------------
(* Specification of one executor invocation on any credential list *)

Init ==
  /\ inv = [i \in Invs |-> IdleInv]
  /\ userApiKeys = <<>>
  /\ keyStatuses = <<>>
  /\ job = NoJob
  /\ isAuthenticated = FALSE
  /\ appState = "LOCKED"
  /\ handler = [i \in Invs |-> "idle"]
  /\ savedStructures = <<>>
  /\ selectedStructureId = "auto"
  /\ cloud = NoDocuments
  /\ requests = {}

Next ==
  \/ Invoke(1)
  \/ \E v \in Results : OpSucceeds(1, v)
  \/ \E e \in OpErrors : OpOverloaded(1, e)
  \/ \E e \in OpErrors : OpQuota(1, e)
  \/ \E e \in OpErrors : OpFatal(1, e)
  \/ DelayElapses(1)

Spec == Init /\ [][Next]_vars

----------------------------------------------------------------------------
(* One invocation when every call and every delay completes; the service
   answers with one error of each class *)

NextLive ==
  \/ Invoke(1)
  \/ \E v \in AppResults : OpSucceeds(1, v)
  \/ \E e \in AppErrors : OpOverloaded(1, e)
  \/ \E e \in AppErrors : OpQuota(1, e)
  \/ \E e \in AppErrors : OpFatal(1, e)
  \/ DelayElapses(1)

\* await operation(ai) settles, one way or the other
OpSettles(i) ==
  \/ \E v \in AppResults : OpSucceeds(i, v)
  \/ \E e \in AppErrors : OpOverloaded(i, e) \/ OpQuota(i, e) \/ OpFatal(i, e)

LiveSpec ==
  Init /\ [][NextLive]_vars /\ WF_vars(OpSettles(1)) /\ WF_vars(DelayElapses(1))

----------------------------------------------------------------------------
(* Specification of the App: a user without stored keys logs in and edits
   the pool; two handlers whose calls of the executor can overlap, while the
   service fails at most MaxFaults calls *)

\* the failed operation calls so far
Faults ==
  Cardinality(UNION {{<<i, n>> : n \in {m \in 1..Len(inv[i].calls) :
                        inv[i].calls[m].outcome \in {"transient", "quota", "fatal"}}}
                     : i \in Invs})

NextApp ==
  \/ handleLogin(<<>>)
  \/ \E i \in Invs : HandlerResumes(i)
  \/ \E input \in KeyInputs : handleAddApiKey(input)
  \/ \E index \in 1..MaxPool : handleRemoveApiKey(index)
  \/ handleAnalyze
  \/ handleGenerate
  \/ \E i \in Invs, v \in AppResults : OpSucceeds(i, v)
  \/ Faults < MaxFaults /\ \E i \in Invs, e \in AppErrors : OpOverloaded(i, e)
  \/ Faults < MaxFaults /\ \E i \in Invs, e \in AppErrors : OpQuota(i, e)
  \/ Faults < MaxFaults /\ \E i \in Invs, e \in AppErrors : OpFatal(i, e)
  \/ \E i \in Invs : DelayElapses(i)

SpecApp == Init /\ [][NextApp]_vars

----------------------------------------------------------------------------
(* The response text of the structured operations.  A text is a sequence of
   tokens: the backtick, the line feed, the space, the word json, the braces,
   one token for each member of a JSON object, the literal null, and words
   that are no JSON. *)

MaxMembers == 2   \* most members of a JSON object the model answers with

Tick == "tick"
LF == "LF"
Ticks == <<Tick, Tick, Tick>>

\* the members a parsed object can carry, and the value the model gave each
Members == {"id", "contentType", "toneDescription", "locations"}

ModelValue(m) ==
  CASE m = "id" -> "id-from-model"
    [] m = "contentType" -> "travel"
    [] m = "toneDescription" -> "calm"
    [] m = "locations" -> <<[name |-> "Hoi An", description |-> "Old town"]>>

MemberLists ==
  {ms \in SeqsUpTo(Members, MaxMembers) :
     \A a, b \in 1..Len(ms) : a # b => ms[a] # ms[b]}

\* the valid JSON documents: an object, or null
Payloads == {<<"{">> \o ms \o <<"}">> : ms \in MemberLists} \cup {<<"null">>}

\* texts that are no JSON
Garbage ==
  { <<"oops">>, <<"quota">>, <<"overloaded">>, <<"{", "oops", "}">>, <<"{", "id">> }

\* the payload inside a code fence, with or without the word json and the
\* line feeds
Fenced(p) ==
  {Ticks \o lang \o nl \o p \o nl \o Ticks :
     lang \in {<<>>, <<"json">>}, nl \in {<<>>, <<LF>>}}

\* what response.text can be; the empty text stands for an absent one too
ResponseTexts ==
  {<<>>} \cup Payloads \cup Garbage
    \cup UNION {Fenced(p) : p \in Payloads \cup {<<"oops">>}}
    \cup {<<" ">> \o p \o <<LF>> : p \in Payloads}

IsWhite(c) == c \in {" ", LF}

RECURSIVE TrimWhiteStart(_)
TrimWhiteStart(s) ==
  IF s # <<>> /\ IsWhite(Head(s)) THEN TrimWhiteStart(Tail(s)) ELSE s

RECURSIVE TrimWhiteEnd(_)
TrimWhiteEnd(s) ==
  IF s # <<>> /\ IsWhite(s[Len(s)]) THEN TrimWhiteEnd(SubSeq(s, 1, Len(s) - 1)) ELSE s

\* trim() of a text with line feeds; also the white space JSON.parse skips
\* around a document
TrimWhite(s) == TrimWhiteEnd(TrimWhiteStart(s))

\* the SyntaxError of JSON.parse: its message quotes the source text
\* (Unexpected token ..., "<text>" is not valid JSON)
SyntaxError(text) ==
  ErrorObject(<<"Unexpected token">> \o text \o <<"is not valid JSON">>)

Parsed(isNull, members) ==
  [ok |-> TRUE, isNull |-> isNull, members |-> members, error |-> ThrownString(<<>>)]

\* JSON.parse(text)
JSONParse(text) ==
  LET s == TrimWhite(text)
      inner == {k \in 1..Len(s) : 1 < k /\ k < Len(s)}
  IN IF s = <<"null">> THEN Parsed(TRUE, <<>>)
     ELSE IF /\ Len(s) >= 2 /\ s[1] = "{" /\ s[Len(s)] = "}"
             /\ \A k \in inner : s[k] \in Members
       THEN Parsed(FALSE, [m \in {s[k] : k \in inner} |-> ModelValue(m)])
     ELSE [ok |-> FALSE, isNull |-> FALSE, members |-> <<>>, error |-> SyntaxError(text)]

StartsWithTicks(s) == Len(s) >= 3 /\ SubSeq(s, 1, 3) = Ticks

\* s.replace(/^<3 ticks>(json)?\n?/, "")
StripOpen(s) ==
  IF ~StartsWithTicks(s) THEN s
  ELSE LET a == SubSeq(s, 4, Len(s))
           b == IF a # <<>> /\ Head(a) = "json" THEN Tail(a) ELSE a
       IN IF b # <<>> /\ Head(b) = LF THEN Tail(b) ELSE b

\* s.replace(/\n?<3 ticks>$/, "")
StripClose(s) ==
  IF ~(Len(s) >= 3 /\ SubSeq(s, Len(s) - 2, Len(s)) = Ticks) THEN s
  ELSE LET d == SubSeq(s, 1, Len(s) - 3)
       IN IF d # <<>> /\ d[Len(d)] = LF THEN SubSeq(d, 1, Len(d) - 1) ELSE d

\* crypto.randomUUID()
Uuids == {"u1", "u2"}

Resolved(v) == [ok |-> TRUE, value |-> v, error |-> ThrownString(<<>>)]
Rejected(e) == [ok |-> FALSE, value |-> <<>>, error |-> e]

\* { id: crypto.randomUUID(), contentType: general, ...data }
SpreadOver(first, data) ==
  [m \in DOMAIN first \cup DOMAIN data |-> IF m \in DOMAIN data THEN data[m] ELSE first[m]]

\* analyzeTranscript: the body of the operation once generateContent resolved
analyzeTranscriptBody(text, uuid) ==
  IF text = <<>> THEN Rejected(ErrorObject(<<"No response from Gemini">>))
  ELSE LET data == JSONParse(text)
       IN IF ~data.ok THEN Rejected(data.error)
          ELSE Resolved(SpreadOver([id |-> uuid, contentType |-> "general"], data.members))

ParseFailedError == ErrorObject(<<"Failed to parse location suggestions.">>)

\* suggestTravelLocations: the body of the operation once generateContent
\* resolved
suggestTravelLocationsBody(text, uuid) ==
  IF text = <<>> THEN Rejected(ErrorObject(<<"Failed to fetch locations">>))
  ELSE LET trimmed == TrimWhite(text)
           cleanedText == IF StartsWithTicks(trimmed)
                            THEN StripClose(StripOpen(trimmed)) ELSE trimmed
           data == JSONParse(cleanedText)
       IN IF ~data.ok \/ data.isNull \/ "locations" \notin DOMAIN data.members
            THEN Rejected(ParseFailedError)
            ELSE LET locs == data.members["locations"]
                 IN Resolved([k \in 1..Len(locs) |->
                       [ id |-> uuid, name |-> locs[k].name,
                         description |-> locs[k].description, isSelected |-> FALSE ]])

----------------------------------------------------------------------------
(* The structured operations under the executor *)

\* the credential lists the handlers pass on: checkApiKeys lets no empty
\* pool through, and handleAddApiKey stores trimmed keys only
ServiceKeyLists == SeqsUpTo({KeyA, KeyB}, MaxPool) \ {<<>>}

\* return executeWithKeyRotation(apiKeys, async (ai) => {...}, onStatusUpdate):
\* the invocation remembers which operation it was handed
StartOperation(i, op) ==
  /\ inv[i].pc = "idle"
  /\ \E apiKeys \in ServiceKeyLists, hasCb \in BOOLEAN :
       inv' = [inv EXCEPT ![i] = Begin(apiKeys, EnvUndefined, hasCb) @@ [op |-> op]]
  /\ UNCHANGED <<userApiKeys, keyStatuses, job, uiVars>>

analyzeTranscript(i) == StartOperation(i, "analyze")

suggestTravelLocations(i) == StartOperation(i, "suggest")

OperationBody(op, text, uuid) ==
  IF op = "analyze" THEN analyzeTranscriptBody(text, uuid)
  ELSE suggestTravelLocationsBody(text, uuid)

\* generateContent resolves with a text and the rest of the operation runs:
\* what it returns or throws is what the executor awaits
Responds(i, text, uuid) ==
  /\ inv[i].pc = "call"
  /\ LET out == OperationBody(inv[i].op, text, uuid)
     IN IF out.ok THEN OpSucceeds(i, out.value)
        ELSE OpOverloaded(i, out.error) \/ OpQuota(i, out.error) \/ OpFatal(i, out.error)

NextStructured ==
  \/ analyzeTranscript(1)
  \/ suggestTravelLocations(1)
  \/ \E text \in ResponseTexts, uuid \in Uuids : Responds(1, text, uuid)
  \/ \E e \in AppErrors : OpOverloaded(1, e)
  \/ \E e \in AppErrors : OpQuota(1, e)
  \/ \E e \in AppErrors : OpFatal(1, e)
  \/ DelayElapses(1)

SpecStructured == Init /\ [][NextStructured]_vars

----------------------------------------------------------------------------
(* C11: a malformed response is fatal for the call *)

\* the errors the two operations throw when the text is no JSON of the
\* expected shape
IsParseFailure(e) ==
  e = ParseFailedError \/ \E text \in ResponseTexts : e = SyntaxError(text)

\* the last call of the operation that has settled
LastSettled(r) ==
  CHOOSE n \in 1..Len(r.calls) :
    /\ r.calls[n].outcome # "pending"
    /\ \A m \in 1..Len(r.calls) : r.calls[m].outcome # "pending" => m <= n

MalformedIsFatal(r) ==
  (r.raised # <<>> /\ IsParseFailure(r.raised[1])) =>
    LET n == LastSettled(r)
    IN /\ r.calls[n].outcome = "fatal"
       /\ n = Len(r.calls)
       /\ CbsOn(r, r.calls[n].idx, "expired") = {}
       /\ r.pc = "done"
       /\ r.outcome[1].kind = "throw"
       /\ r.outcome[1].error = r.raised[1]

\* C11: when the text of the model cannot be parsed as JSON in Analyze or
\* SuggestLocations, whatever the text of the parse failure, that call of the
\* operation is the last one: the failure is thrown to the caller, the
\* operation is not called again on this or another credential, and the
\* credential is not reported 'expired'.
C11_MalformedIsFatal == \A i \in Invs : MalformedIsFatal(inv[i])

----------------------------------------------------------------------------
(* The response handling of the structured operations, applied to a text *)

\* the model answers analyzeTranscript with a text
AnalyzeApplied ==
  /\ job = NoJob
  /\ \E text \in ResponseTexts, uuid \in Uuids :
       job' = [ op |-> "analyze", text |-> text, uuid |-> uuid,
                out |-> analyzeTranscriptBody(text, uuid) ]
  /\ UNCHANGED <<inv, userApiKeys, keyStatuses, uiVars>>

\* the model answers suggestTravelLocations with a text
SuggestApplied ==
  /\ job = NoJob
  /\ \E text \in ResponseTexts, uuid \in Uuids :
       job' = [ op |-> "suggest", text |-> text, uuid |-> uuid,
                out |-> suggestTravelLocationsBody(text, uuid) ]
  /\ UNCHANGED <<inv, userApiKeys, keyStatuses, uiVars>>

NextResponse == AnalyzeApplied \/ SuggestApplied

SpecResponse == Init /\ [][NextResponse]_vars

----------------------------------------------------------------------------
(* C12: fence stripping round trip *)

\* C12: for Analyze and SuggestLocations and every valid JSON payload, the
\* response made of that payload inside a three-backtick code fence (with or
\* without the word json) gives the same result, up to the generated
\* identifier, as the payload without the fence.
C12_FenceRoundTrip ==
  job.op \in {"analyze", "suggest"} =>
    \A p \in Payloads :
      job.text \in Fenced(p) =>
        \E uuid \in Uuids : job.out = OperationBody(job.op, p, uuid)

----------------------------------------------------------------------------
(* C20: identifier injection of Analyze *)

\* C20: every profile analyzeTranscript returns, also when the parsed output
\* of the model has an id or a contentType member of its own, has the
\* generated identifier as its id and 'general' as its contentType.
C20_IdentifierInjection ==
  (job.op = "analyze" /\ job.out.ok) =>
    /\ job.out.value["id"] = job.uuid
    /\ job.out.value["contentType"] = "general"

----------------------------------------------------------------------------
(* C13: the failure classes the user sees *)

\* App.handleError: the alert it shows, as its template and the detail it
\* quotes
handleError(error) ==
  LET msg == ErrMsg(error)
  IN IF Includes(msg, "429") \/ Includes(msg, "RESOURCE_EXHAUSTED")
       THEN [template |-> "quota", detail |-> <<>>]
       ELSE [template |-> "detail", detail |-> msg]

\* the invocation has thrown to the handler, whose catch block calls
\* handleError on the error
Failed(r) == r.pc = "done" /\ r.outcome[1].kind = "throw"

\* every credential was called and answered with a quota signal
AllQuota(r) ==
  /\ r.calls # <<>>
  /\ \A n \in 1..Len(r.calls) : r.calls[n].outcome = "quota"

\* every credential was called and ran out of retries on overload
AllTransient(r) ==
  /\ r.calls # <<>>
  /\ \A n \in 1..Len(r.calls) : r.calls[n].outcome = "transient"

FatalOnly(r) == r.calls # <<>> /\ LastCall(r).outcome = "fatal"

FailureClasses(r) ==
  /\ AllQuota(r) => handleError(r.outcome[1].error).template = "quota"
  /\ AllTransient(r) =>
       \A e \in OtherErrors :
         handleError(r.outcome[1].error).template # handleError(e).template
  /\ FatalOnly(r) => handleError(r.outcome[1].error).template # "quota"

\* C13: when a call of the service fails, the alert of handleError tells
\* three cases apart: every key exhausted by quota, a transient failure of
\* the service, an unexpected error; whenever the executor failed because
\* every credential answered with a signal it classifies as quota, the alert
\* is the one for exhausted keys.
C13_FailureClasses ==
  \A i \in Invs : (Started(inv[i]) /\ Failed(inv[i])) => FailureClasses(inv[i])

----------------------------------------------------------------------------
(* generateScript: the blueprint and the request sent to the model *)

MaxSections == 3          \* most sections of a structure or of a skeleton

InflationThreshold == 800
DefaultEstimate == 100
DefaultTotalWords == 1000
MinSectionWords == 50

TargetLengths == {1, 5, 100, 800, 801, 2000}
Estimates == {0, 1, 100}            \* estimatedWords of a custom section
SkeletonEstimates == {0, 100, 200}  \* estimatedWords of a skeleton section
TotalWordCounts == {0, 500, 1000}   \* quantitativeAnalysis.totalWordCount

\* an optional value: absent (undefined), or present
Absent == <<>>
Some(v) == <<v>>

\* a || d for a string, a || d for a number, a || [] for a list
OrString(opt, d) == IF opt = Absent \/ opt = Some("") THEN d ELSE opt[1]
OrNumber(n, d) == IF n = 0 THEN d ELSE n
OrList(opt) == IF opt = Absent THEN <<>> ELSE opt[1]

RECURSIVE Sum(_)
Sum(s) == IF s = <<>> THEN 0 ELSE Head(s) + Sum(Tail(s))

Max(a, b) == IF a >= b THEN a ELSE b

\* mutant: the quotient cut off instead of rounded
RoundQuot_floor(a, b) == a \div b

\* Math.round(a / b) for a >= 0 and b > 0: the nearest integer, a half going up
RoundQuot(a, b) == (2 * a + b) \div (2 * b)

\* x * y / z is an integer and a half
IsHalf(x, y, z) == (2 * x * y) % (2 * z) = z

RECURSIVE GCD(_, _)
GCD(a, b) == IF b = 0 THEN a ELSE GCD(b, a % b)

RECURSIVE IsPowerOfTwo(_)
IsPowerOfTwo(n) == n = 1 \/ (n > 1 /\ n % 2 = 0 /\ IsPowerOfTwo(n \div 2))

\* the double y / z is not the exact quotient
Inexact(y, z) == ~IsPowerOfTwo(z \div GCD(y, z))

\* x * (y / z) in doubles can come out just below an exact half
CanFallShort(x, y, z) == z > 0 /\ IsHalf(x, y, z) /\ Inexact(y, z)

\* Math.round(x * (y / z)): the product of doubles rounds as the exact one
\* does, except that a half that fell short is rounded down
RoundScaled(x, y, z, up) ==
  IF CanFallShort(x, y, z) /\ ~up THEN RoundQuot(x * y, z) - 1 ELSE RoundQuot(x * y, z)

\* Math.round(targetLength * (targetLength > 800 ? 1.2 : 1.1)); both products
\* round as the exact ones do
inflatedTotalTarget(targetLength) ==
  IF targetLength > InflationThreshold
    THEN RoundQuot(targetLength * 12, 10)
    ELSE RoundQuot(targetLength * 11, 10)

Section(n) == [estimatedWords |-> n]

SectionLists(E) ==
  {[k \in 1..Len(s) |-> Section(s[k])] : s \in SeqsUpTo(E, MaxSections)}

\* customStructure: null, or a structure with at least one section
CustomStructures ==
  {Absent} \cup {Some([sections |-> l]) : l \in SectionLists(Estimates) \ {<<>>}}

\* subHeaderStyle, a string of characters
HeaderStyles ==
  { <<>>, <<"N", "o", "n", "e">>, <<"B", "o", "l", "d">>, <<"H", "2">> }

ToLower(c) ==
  CASE c = "N" -> "n" [] c = "B" -> "b" [] c = "H" -> "h" [] OTHER -> c

ToLowerCase(s) == [k \in 1..Len(s) |-> ToLower(s[k])]

\* s.includes(w)
IncludesString(s, w) ==
  \E k \in 1..(Len(s) - Len(w) + 1) : SubSeq(s, k, k + Len(w) - 1) = w

QuantitativeAnalyses ==
  {Absent} \cup
  {Some([totalWordCount |-> n, subHeaderStyle |-> h, structureSkeleton |-> l]) :
     n \in TotalWordCounts, h \in HeaderStyles, l \in SectionLists(SkeletonEstimates)}

\* the quantitative analysis of the built-in sample profile
SampleAnalysis ==
  Some([ totalWordCount |-> 500, subHeaderStyle |-> <<"B", "o", "l", "d">>,
         structureSkeleton |-> <<Section(100), Section(200), Section(200)>> ])

\* the optional descriptors of a profile that generateScript and refineText
\* read; a?.b is absent when a or b is
ProfileShapes == {"legacy", "full", "noTics", "blank"}

Descriptor(shape, text) ==
  CASE shape = "legacy" -> Absent
    [] shape = "blank" -> Some("")
    [] OTHER -> Some(text)

Phrases(shape, list) ==
  CASE shape = "legacy" -> Absent
    [] shape = "blank" -> Some(<<>>)
    [] OTHER -> Some(list)

ProfileOf(shape, qa, metrics) ==
  [ name |-> "Tech Minimalist",
    toneDescription |-> "Dry",
    metrics |-> metrics,
    moralCompassDescription |-> Descriptor(shape, "Fair"),
    omissionPatterns |-> Descriptor(shape, "Prices"),
    argumentSelectionBias |-> Descriptor(shape, "Data first"),
    cognitivePattern |-> Descriptor(shape, "Logical"),
    verbalTics |-> IF shape = "noTics" THEN Absent ELSE Descriptor(shape, "So,"),
    signaturePhrases |-> Phrases(shape, <<"utility">>),
    introHabits |-> Descriptor(shape, "States a problem"),
    outroHabits |-> Descriptor(shape, "Final verdict"),
    introPhrases |-> Phrases(shape, <<"Stop buying this.">>),
    outroPhrases |-> Phrases(shape, <<"See ya.">>),
    quantitativeAnalysis |-> qa ]

\* the three ways the blueprint is built
ExecutionMode(customStructure, profile) ==
  IF customStructure # Absent THEN "CUSTOM_STRUCTURE"
  ELSE IF profile.quantitativeAnalysis # Absent THEN "AUTO_DNA"
  ELSE "FLOW"

\* the sections whose words are rescaled, each with the number that is scaled
\* and the total it is divided by
Scaled(customStructure, profile) ==
  IF customStructure # Absent
    THEN LET secs == customStructure[1].sections
             raw == [k \in 1..Len(secs) |-> OrNumber(secs[k].estimatedWords, DefaultEstimate)]
         IN [k \in 1..Len(secs) |-> [words |-> raw[k], total |-> Sum(raw)]]
  ELSE IF profile.quantitativeAnalysis # Absent
    THEN LET qa == profile.quantitativeAnalysis[1]
             secs == qa.structureSkeleton
         IN [k \in 1..Len(secs) |->
               [ words |-> secs[k].estimatedWords,
                 total |-> OrNumber(qa.totalWordCount, DefaultTotalWords) ]]
  ELSE <<>>

\* how the exact halves of this call come out: up wherever there is no half
HalfChoices(targetLength, customStructure, profile) ==
  LET sc == Scaled(customStructure, profile)
      I == inflatedTotalTarget(targetLength)
  IN {ups \in [1..Len(sc) -> BOOLEAN] :
        \A k \in 1..Len(sc) :
          ups[k] \/ CanFallShort(sc[k].words, I, sc[k].total)}

structureBlueprint(targetLength, customStructure, profile, ups) ==
  LET sc == Scaled(customStructure, profile)
      I == inflatedTotalTarget(targetLength)
      mode == ExecutionMode(customStructure, profile)
  IN IF mode = "CUSTOM_STRUCTURE"
       THEN [k \in 1..Len(sc) |->
               [ section_name |-> k,
                 target_words |-> IF sc[k].total > 0
                                    THEN RoundScaled(sc[k].words, I, sc[k].total, ups[k])
                                    ELSE sc[k].words ]]
     ELSE IF mode = "AUTO_DNA"
       THEN [k \in 1..Len(sc) |->
               [ section_name |-> k,
                 target_words |->
                   Max(MinSectionWords, RoundScaled(sc[k].words, I, sc[k].total, ups[k])) ]]
     ELSE <<[section_name |-> "Flow", target_words |-> I]>>

enforceHeaders(customStructure, profile) ==
  IF customStructure # Absent THEN TRUE
  ELSE IF profile.quantitativeAnalysis # Absent
    THEN LET subHeaderStyle == profile.quantitativeAnalysis[1].subHeaderStyle
         IN Len(subHeaderStyle) > 3
              /\ ~IncludesString(ToLowerCase(subHeaderStyle), <<"n", "o", "n", "e">>)
  ELSE FALSE

cognitiveCage(profile) ==
  [ world_view |-> OrString(profile.moralCompassDescription, "Neutral"),
    blind_spots |-> OrString(profile.omissionPatterns, "None"),
    biases |-> OrString(profile.argumentSelectionBias, "Balanced"),
    thinking_style |-> OrString(profile.cognitivePattern, "Standard"),
    verbal_tics |-> OrString(profile.verbalTics, "None"),
    available_vocabulary |-> OrList(profile.signaturePhrases),
    intro_habit |-> OrString(profile.introHabits, "Standard"),
    outro_habit |-> OrString(profile.outroHabits, "Standard"),
    intro_anchors |-> OrList(profile.introPhrases),
    outro_anchors |-> OrList(profile.outroPhrases) ]

\* the JSON task the prompt of generateScript carries
generationTaskDefinition(targetLength, customStructure, profile, ups) ==
  [ task |-> "EXECUTE_STYLE_MODEL",
    target_length |-> inflatedTotalTarget(targetLength),
    execution_mode |->
      IF customStructure # Absent THEN "CUSTOM_STRUCTURE" ELSE "AUTO_DNA",
    cognitive_cage |-> cognitiveCage(profile),
    blueprint |-> structureBlueprint(targetLength, customStructure, profile, ups),
    formatting_mode |->
      IF enforceHeaders(customStructure, profile)
        THEN "VISIBLE_HEADERS_ALLOWED" ELSE "HIDDEN_STRUCTURE_ONLY" ]

\* what generateScript is called with: the profile's skeleton is read only
\* when there is no custom structure
GenerateInputs ==
  {in \in CustomStructures \X QuantitativeAnalyses :
     in[1] # Absent => in[2] \in {Absent, SampleAnalysis}}

Dial(humor, logic, emotion, complexity, pacing, informality) ==
  [ humor |-> humor, logic |-> logic, emotion |-> emotion,
    complexity |-> complexity, pacing |-> pacing, informality |-> informality ]

MidMetrics == Dial(50, 50, 50, 50, 50, 50)

\* generateScript builds its request
GenerateApplied ==
  /\ job = NoJob
  /\ \E targetLength \in TargetLengths, in \in GenerateInputs, shape \in ProfileShapes :
       LET customStructure == in[1]
           profile == ProfileOf(shape, in[2], MidMetrics)
       IN \E ups \in HalfChoices(targetLength, customStructure, profile) :
            job' = [ op |-> "generate", targetLength |-> targetLength,
                     customStructure |-> customStructure, profile |-> profile,
                     request |-> generationTaskDefinition(targetLength, customStructure, profile, ups) ]
  /\ UNCHANGED <<inv, userApiKeys, keyStatuses, uiVars>>

----------------------------------------------------------------------------
(* getMetricTuningInstructions and refineText *)

HighBand == 80
LowHumor == 20
LowComplexity == 30

Metrics == {"humor", "logic", "emotion", "complexity", "pacing", "informality"}

\* the values a dial takes: the ends, the middle, and both sides of a band
Dials(metric) ==
  CASE metric = "humor" -> {0, 19, 20, 21, 50, 79, 80, 85, 100}
    [] metric = "complexity" -> {0, 30, 31, 79, 80, 100}
    [] OTHER -> {0, 79, 80, 100}

MetricVectors ==
  {Dial(h, l, e, c, p, i) :
     h \in Dials("humor"), l \in Dials("logic"), e \in Dials("emotion"),
     c \in Dials("complexity"), p \in Dials("pacing"), i \in Dials("informality")}

\* an instruction string, with the dial whose test pushed it
Instruction(metric, text) == [metric |-> metric, text |-> text]

ComedyClub == Instruction("humor", "MODE: COMEDY CLUB. Aggressively use satire, irony.")

\* mutant: the comedy instruction also asks for a fast pacing
HumorTuning_paced(metrics) ==
  IF metrics.humor >= HighBand /\ metrics.pacing >= HighBand THEN <<ComedyClub>>
  ELSE IF metrics.humor <= LowHumor
    THEN <<Instruction("humor", "MODE: SERIOUS. Zero jokes.")>>
  ELSE <<>>

HumorTuning(metrics) ==
  IF metrics.humor >= HighBand THEN <<ComedyClub>>
  ELSE IF metrics.humor <= LowHumor
    THEN <<Instruction("humor", "MODE: SERIOUS. Zero jokes.")>>
  ELSE <<>>

ComplexityTuning(metrics) ==
  IF metrics.complexity >= HighBand
    THEN <<Instruction("complexity", "VOCABULARY: ACADEMIC. Use precise terminology.")>>
  ELSE IF metrics.complexity <= LowComplexity
    THEN <<Instruction("complexity", "VOCABULARY: SIMPLE. ELI5 style.")>>
  ELSE <<>>

HighTuning(metrics, metric, text) ==
  IF metrics[metric] >= HighBand THEN <<Instruction(metric, text)>> ELSE <<>>

getMetricTuningInstructions(metrics) ==
  HumorTuning(metrics)
    \o HighTuning(metrics, "logic", "COGNITIVE STYLE: ANALYTICAL. Structure arguments clearly.")
    \o HighTuning(metrics, "emotion", "COGNITIVE STYLE: VISCERAL. Focus on sensory experience.")
    \o ComplexityTuning(metrics)
    \o HighTuning(metrics, "pacing", "RHYTHM: STACCATO. Fast, short sentences.")
    \o HighTuning(metrics, "informality", "REGISTER: CASUAL/SLANG.")

\* the tuning instructions are computed for a metrics vector
TuningApplied ==
  /\ job = NoJob
  /\ \E metrics \in MetricVectors :
       job' = [op |-> "tuning", metrics |-> metrics, out |-> getMetricTuningInstructions(metrics)]
  /\ UNCHANGED <<inv, userApiKeys, keyStatuses, uiVars>>

\* ${value} in a template literal
Render(opt) == IF opt = Absent THEN "undefined" ELSE opt[1]

RefineMetrics == {MidMetrics, Dial(85, 0, 0, 0, 0, 0), Dial(0, 100, 100, 100, 100, 100)}

\* what the model answers refineText with; the empty text stands for an
\* absent one too
RefineTexts == {<<>>, <<"x">>, <<" ", "x", " ">>}

OriginalText == <<"o">>

\* the persona guidelines of the prompt of refineText
refinePrompt(profile) ==
  [ persona |-> profile.name,
    voice |-> profile.toneDescription,
    verbal_tics |-> Render(profile.verbalTics),
    style_rules |-> getMetricTuningInstructions(profile.metrics) ]

\* refineText sends its prompt and returns the answer, or the original text
RefineApplied ==
  /\ job = NoJob
  /\ \E shape \in ProfileShapes, metrics \in RefineMetrics, text \in RefineTexts :
       LET profile == ProfileOf(shape, Absent, metrics)
       IN job' = [ op |-> "refine", profile |-> profile, text |-> text,
                   prompt |-> refinePrompt(profile),
                   out |-> IF text # <<>> THEN Trim(text) ELSE OriginalText ]
  /\ UNCHANGED <<inv, userApiKeys, keyStatuses, uiVars>>

NextPrompt == GenerateApplied \/ TuningApplied \/ RefineApplied

SpecPrompt == Init /\ [][NextPrompt]_vars

----------------------------------------------------------------------------
(* C14: length inflation *)

BlueprintWords(request) ==
  [k \in 1..Len(request.blueprint) |-> request.blueprint[k].target_words]

LengthInflation ==
  /\ Sum(BlueprintWords(job.request)) >= job.targetLength
  /\ \A above \in TargetLengths :
       (job.targetLength <= InflationThreshold /\ above > InflationThreshold) =>
         \* inflated / targetLength <= inflated(above) / above
         inflatedTotalTarget(job.targetLength) * above
           <= inflatedTotalTarget(above) * job.targetLength

\* C14: for every positive targetLength and each of the three ways the
\* blueprint is built (custom structure, profile skeleton, single section),
\* the target words of the blueprint's sections add up to targetLength at
\* least, and the ratio inflatedTotalTarget / targetLength of a targetLength
\* of at most 800 is not above that of a targetLength over 800.
C14_LengthInflation ==
  (job.op = "generate" /\ job.targetLength > 0) => LengthInflation

----------------------------------------------------------------------------
(* C15: the rescaling of a custom structure keeps the proportions *)

RawEstimates(customStructure) ==
  [k \in 1..Len(customStructure[1].sections) |->
     customStructure[1].sections[k].estimatedWords]

ProportionKept ==
  LET raw == RawEstimates(job.customStructure)
      words == BlueprintWords(job.request)
  IN /\ Len(words) = Len(raw)
     /\ \A k \in 1..Len(raw) :
          words[k] = RoundQuot(raw[k] * job.request.target_length, Sum(raw))

\* C15: for every custom structure whose estimates are non-negative integers
\* (zero included) with a positive sum, each rescaled target of the blueprint
\* is round(raw estimate * inflated target / sum of the raw estimates), so
\* the targets are in the ratio of the raw estimates, within rounding.
C15_ProportionKept ==
  (job.op = "generate" /\ job.customStructure # Absent
     /\ Sum(RawEstimates(job.customStructure)) > 0) => ProportionKept

----------------------------------------------------------------------------
(* C16: the rescaled targets of a custom structure against the inflated
   target *)

Abs(n) == IF n < 0 THEN 0 - n ELSE n

CustomJob == job.op = "generate" /\ job.customStructure # Absent

\* sum of the rescaled targets - inflatedTotalTarget
TargetGap == Sum(BlueprintWords(job.request)) - job.request.target_length

----------------------------------------------------------------------------
(* C17: the minimum the user asked for *)

\* the names under which a request can carry a required minimum length (the
\* earlier revision of generateScript sent minimumRequiredWords)
MinimumFields == {"minimumRequiredWords", "minimum_required_words", "minimum_length"}

RenderedMinimum(request) == {request[f] : f \in MinimumFields \cap DOMAIN request}

\* C17: the request generateScript sends carries the targetLength the user
\* asked for as the required minimum, next to the inflated goal: the rendered
\* minimum is targetLength and the rendered goal is inflatedTotalTarget.
C17_UserMinimum ==
  job.op = "generate" =>
    /\ job.request.target_length = inflatedTotalTarget(job.targetLength)
    /\ RenderedMinimum(job.request) = {job.targetLength}

----------------------------------------------------------------------------
(* C18: metric tuning is a function of the bands *)

\* the instructions of a result that the dial x pushed
InstructionsOf(out, x) == {out[k].text : k \in {n \in 1..Len(out) : out[n].metric = x}}

TuningByBand(metrics, out) ==
  /\ \A x \in Metrics :
       Cardinality({k \in 1..Len(out) : out[k].metric = x}) <= 1
  /\ metrics.humor >= HighBand => InstructionsOf(out, "humor") = {ComedyClub.text}
  /\ (LowHumor < metrics.humor /\ metrics.humor < HighBand) =>
       InstructionsOf(out, "humor") = {}
  \* moving any other dial leaves the instruction of a dial as it is
  /\ \A x \in Metrics : \A o \in Metrics \ {x} : \A d \in Dials(o) :
       InstructionsOf(getMetricTuningInstructions([metrics EXCEPT ![o] = d]), x)
         = InstructionsOf(out, x)

\* C18: for every metrics vector, getMetricTuningInstructions gives at most
\* one instruction for each metric, and it depends on that metric alone:
\* humor >= 80 always gives the comedy club instruction, a humor strictly
\* between the low and the high band (50 for one) gives no humor instruction,
\* and changing another metric never adds, removes or changes it.
C18_TuningByBand ==
  job.op = "tuning" => TuningByBand(job.metrics, job.out)

C18_Witness ==
  /\ job.op = "tuning"
  /\ job.metrics.humor = 85 /\ job.metrics.pacing = 0 /\ job.metrics.logic = 100
  /\ Len(job.out) = 2
  /\ job.out[1] = ComedyClub

----------------------------------------------------------------------------
(* C19: the defaults of the optional fields *)

\* the documented defaults of a descriptor; that of a list is the empty list
DefaultStrings == {"Neutral", "Standard", "None"}

\* the descriptors the cage reads, each with the field rendered from it
CageStrings ==
  { <<"moralCompassDescription", "world_view">>, <<"omissionPatterns", "blind_spots">>,
    <<"argumentSelectionBias", "biases">>, <<"cognitivePattern", "thinking_style">>,
    <<"verbalTics", "verbal_tics">>, <<"introHabits", "intro_habit">>,
    <<"outroHabits", "outro_habit">> }

CageLists ==
  { <<"signaturePhrases", "available_vocabulary">>, <<"introPhrases", "intro_anchors">>,
    <<"outroPhrases", "outro_anchors">> }

GenerateDefaults ==
  LET cage == job.request.cognitive_cage
  IN /\ \A f \in CageStrings :
          job.profile[f[1]] = Absent => cage[f[2]] \in DefaultStrings
     /\ \A f \in CageLists :
          job.profile[f[1]] = Absent => cage[f[2]] = <<>>

RefineDefaults ==
  job.profile.verbalTics = Absent =>
    job.prompt.verbal_tics # "undefined" /\ job.prompt.verbal_tics \in DefaultStrings

\* C19: for every profile that lacks any of its optional fields, Generate and
\* Refine build their prompt, and every field rendered from an absent value
\* is its documented default ('Neutral', 'Standard', 'None' or the empty
\* list), never an undefined value.
C19_OptionalDefaults ==
  /\ job.op = "generate" => GenerateDefaults
  /\ job.op = "refine" => RefineDefaults

----------------------------------------------------------------------------
(* generateScript and refineText under the executor: the text operations *)

\* what response.text can be for a text operation; the empty text stands for
\* an absent one too
TextResponses == {<<>>, <<"x">>, <<" ", "x", " ">>}

FailedToGenerate == <<"Failed to generate script.">>

\* mutant: an empty answer of the model is an error of the operation
generateScriptBody_throws(text) ==
  IF text # <<>> THEN Resolved(text) ELSE Rejected(ErrorObject(<<"No response from Gemini">>))

\* generateScript: return response.text || "Failed to generate script."
generateScriptBody(text) ==
  Resolved(IF text # <<>> THEN text ELSE FailedToGenerate)

\* refineText: return response.text ? response.text.trim() : originalText
refineTextBody(text, originalText) ==
  Resolved(IF text # <<>> THEN Trim(text) ELSE originalText)

generateScript(i) == StartOperation(i, "generate")

refineText(i) == StartOperation(i, "refine")

TextOperationBody(op, text) ==
  IF op = "generate" THEN generateScriptBody(text)
  ELSE refineTextBody(text, OriginalText)

\* await ai.models.generateContent(...) resolves with a text: the operation
\* goes on to its return statement
ModelAnswers(i, text) ==
  /\ inv[i].pc = "call"
  /\ job = NoJob
  /\ job' = [op |-> inv[i].op, text |-> text, out |-> TextOperationBody(inv[i].op, text)]
  /\ UNCHANGED <<inv, userApiKeys, keyStatuses, uiVars>>

\* the operation returns (or throws) and the executor takes it from there
OperationEnds(i) ==
  /\ inv[i].pc = "call"
  /\ job # NoJob
  /\ IF job.out.ok THEN OpSucceeds(i, job.out.value)
     ELSE OpOverloaded(i, job.out.error) \/ OpQuota(i, job.out.error)
            \/ OpFatal(i, job.out.error)

\* generateContent rejects: the operation throws what it threw
ContentFails(i, e) ==
  /\ job = NoJob
  /\ OpOverloaded(i, e) \/ OpQuota(i, e) \/ OpFatal(i, e)

NextText ==
  \/ generateScript(1)
  \/ refineText(1)
  \/ \E text \in TextResponses : ModelAnswers(1, text)
  \/ OperationEnds(1)
  \/ \E e \in AppErrors : ContentFails(1, e)
  \/ DelayElapses(1)

SpecText == Init /\ [][NextText]_vars

----------------------------------------------------------------------------
(* C21: the fallback for an empty response *)

\* what the operation gives back when the model returned no text
Fallback(op) == IF op = "generate" THEN FailedToGenerate ELSE OriginalText

\* the model returned no text to the operation of the invocation
EmptyAnswer == job.op \in {"generate", "refine"} /\ job.text = <<>>

\* the invocation ended on its last call, returning v, with the credential
\* of that call reported 'active'
EndedInSuccess(r, v) ==
  /\ r.outcome = <<Returned(v)>>
  /\ LastCall(r) = [idx |-> r.idx, key |-> r.keysToUse[r.idx], outcome |-> "ok", value |-> v]
  /\ r.hasCb =>
       /\ r.cbs # <<>>
       /\ r.cbs[Len(r.cbs)] = [idx |-> r.idx, key |-> r.keysToUse[r.idx], status |-> "active"]
       /\ keyStatuses[r.keysToUse[r.idx]] = "active"

EmptyResponseFallback(r) ==
  /\ job.out = Resolved(Fallback(job.op))
  \* the call that was answered is still the last one
  /\ r.pc \in {"call", "done"}
  /\ r.pc = "call" => LastCall(r).outcome = "pending"
  /\ r.pc = "done" => EndedInSuccess(r, Fallback(job.op))

\* C21: when the model returns no text for Generate or Refine, the call does
\* not raise: Generate returns the fixed sentinel string and Refine the
\* original text unchanged; the executor takes the call as a success, reports
\* the credential 'active', and tries no further credential.
C21_EmptyResponseFallback == EmptyAnswer => EmptyResponseFallback(inv[1])

\* a quota failure on the first credential, then an empty answer to Refine on
\* the second: the original text is what the invocation returned
C21_Witness ==
  LET r == inv[1]
  IN /\ EmptyAnswer /\ job.op = "refine"
     /\ r.pc = "done" /\ r.hasCb /\ Len(r.calls) = 2 /\ Len(r.keysToUse) = 2
     /\ r.calls[1].outcome = "quota"
     /\ r.calls[2].outcome = "ok" /\ r.calls[2].value = OriginalText
     /\ r.outcome = <<Returned(OriginalText)>>

----------------------------------------------------------------------------
(* C22: which blueprint is built, and when headers are allowed *)

HeadersEnabled(request) == request.formatting_mode = "VISIBLE_HEADERS_ALLOWED"

\* a recorded sub-header style that is neither empty nor the word none
NonTrivialStyle(subHeaderStyle) ==
  subHeaderStyle # <<>> /\ ToLowerCase(subHeaderStyle) # <<"n", "o", "n", "e">>

\* the section targets a custom structure made of these sections gets
RescaledAsCustom(sections) ==
  LET structure == Some([sections |-> sections])
  IN {BlueprintWords([blueprint |->
         structureBlueprint(job.targetLength, structure, job.profile, ups)]) :
        ups \in HalfChoices(job.targetLength, structure, job.profile)}

FromCustomStructure ==
  /\ BlueprintWords(job.request) \in RescaledAsCustom(job.customStructure[1].sections)
  /\ HeadersEnabled(job.request)

FromSkeleton ==
  LET qa == job.profile.quantitativeAnalysis[1]
  IN /\ BlueprintWords(job.request) \in RescaledAsCustom(qa.structureSkeleton)
     /\ HeadersEnabled(job.request) <=> NonTrivialStyle(qa.subHeaderStyle)

CatchAll ==
  /\ Len(job.request.blueprint) = 1
  /\ job.request.blueprint[1].target_words = inflatedTotalTarget(job.targetLength)
  /\ ~HeadersEnabled(job.request)

\* C22: generateScript builds the blueprint from the custom structure
\* whenever one is supplied, with headers enabled; otherwise from the
\* skeleton of the profile when it has one, its sections rescaled the way
\* those of a custom structure are, with headers enabled exactly when the
\* recorded sub-header style is neither empty nor none; otherwise it is one
\* catch-all section whose target is the whole inflated target, with headers
\* not enabled.
C22_BlueprintSelection ==
  job.op = "generate" =>
    IF job.customStructure # Absent THEN FromCustomStructure
    ELSE IF job.profile.quantitativeAnalysis # Absent THEN FromSkeleton
    ELSE CatchAll

----------------------------------------------------------------------------
(* C27: an error that carries both signals *)

\* the message carries an overload signal and a quota signal
HasBothSignals(error) == IsOverload(ErrMsg(error)) /\ IsQuota(ErrMsg(error))

TransientCallsOn(r, k) == {n \in CallsOn(r, k) : r.calls[n].outcome = "transient"}

\* the last call of the operation that was rejected: the one that threw
\* r.raised
LastRejected(r) ==
  LET failed == {n \in 1..Len(r.calls) : r.calls[n].outcome \in {"transient", "quota", "fatal"}}
  IN CHOOSE n \in failed : \A m \in failed : m <= n

\* the last failure was taken as an overload: a retry of that credential is
\* used up, the executor stays on it while it has one left, and the
\* credential is not reported 'expired'
HandledAsTransient(r) ==
  LET n == LastRejected(r)
      k == r.calls[n].idx
      fails == Cardinality(TransientCallsOn(r, k))
  IN /\ r.calls[n].outcome = "transient"
     /\ CbsOn(r, k, "expired") = {}
     /\ fails <= InitialRetries
     /\ fails < InitialRetries =>
          /\ r.idx = k
          /\ r.retries = InitialRetries - fails
          /\ \A m \in (n + 1)..Len(r.calls) : r.calls[m].idx = k
          \* the next call is on the same credential, unless it has succeeded
          /\ r.pc \in {"delay", "call"} \/ LastCall(r).outcome = "ok"
     /\ fails = InitialRetries => \A m \in (n + 1)..Len(r.calls) : r.calls[m].idx > k

\* each error is in one class, fixed by the two tests on its message
OneClass(error) ==
  /\ Classify(error) \in {"transient", "quota", "fatal"}
  /\ Classify(error) = "transient" <=> IsOverload(ErrMsg(error))
  /\ Classify(error) = "quota" <=> (~IsOverload(ErrMsg(error)) /\ IsQuota(ErrMsg(error)))
  /\ Classify(error) = "fatal" <=> (~IsOverload(ErrMsg(error)) /\ ~IsQuota(ErrMsg(error)))

EveryErrorInOneClass == \A e \in OpErrors : OneClass(e)

\* C27: an operation error whose message carries both an overload signal
\* ('503', 'overloaded', 'Internal error') and a quota signal ('429',
\* 'RESOURCE_EXHAUSTED', 'quota') is handled as a transient overload: it uses
\* up one retry on the same credential, which is not reported 'expired' on
\* that attempt; every error is in exactly one of the classes transient,
\* quota, other, and the call it failed is logged under that class.
C27_ClassificationPrecedence ==
  /\ EveryErrorInOneClass
  /\ \A i \in Invs :
       inv[i].raised # <<>> =>
         /\ inv[i].calls[LastRejected(inv[i])].outcome = Classify(inv[i].raised[1])
         /\ HasBothSignals(inv[i].raised[1]) => HandledAsTransient(inv[i])

\* the second failure of a credential carries both signals: one retry is left,
\* and nothing was reported
C27_Witness ==
  LET r == inv[1]
  IN /\ r.raised = <<EBoth>> /\ r.hasCb
     /\ r.pc = "delay" /\ r.retries = 1 /\ Len(r.calls) = 2
     /\ r.cbs = <<>> /\ keyStatuses = <<>>
     /\ Cardinality(CredIdx(r.keysToUse)) >= 2

----------------------------------------------------------------------------
(* C28: no status callback for a credential given up on overload *)

\* the credential at position k was given up after its attempts all failed
\* with overload
AbandonedOnOverload(r, k) ==
  /\ k \in Called(r)
  /\ OutcomesOn(r, k) = {"transient"}
  /\ Left(r, k)

\* the statuses the callbacks of the invocation have written, the later one
\* winning
WrittenBy(r) ==
  LET keys == {r.cbs[m].key : m \in 1..Len(r.cbs)}
      last(key) == CHOOSE m \in 1..Len(r.cbs) :
                     /\ r.cbs[m].key = key
                     /\ \A m2 \in 1..Len(r.cbs) : r.cbs[m2].key = key => m2 <= m
  IN [key \in keys |-> r.cbs[last(key)].status]

\* the calls of the operation the callback is told about
Told(r) == SelectSeq(r.calls, LAMBDA c : c.outcome \in {"quota", "ok"})

CallbackFor(c) ==
  [ idx |-> c.idx, key |-> c.key,
    status |-> IF c.outcome = "quota" THEN "expired" ELSE "active" ]

NoStatusOnOverload(r) ==
  /\ \A k \in Called(r) :
       AbandonedOnOverload(r, k) =>
         /\ Cardinality(CallsOn(r, k)) = InitialRetries
         /\ \A m \in 1..Len(r.cbs) : r.cbs[m].idx # k
  \* one callback for each quota failure and each success, in the order of
  \* the calls, and no other
  /\ LET told == Told(r)
     IN IF r.hasCb
          THEN /\ Len(r.cbs) = Len(told)
               /\ \A m \in 1..Len(r.cbs) : r.cbs[m] = CallbackFor(told[m])
          ELSE r.cbs = <<>>
  \* the status map holds what the callbacks wrote and nothing else
  /\ keyStatuses = WrittenBy(r)

\* C28: a credential that is given up because its 3 attempts all failed with
\* transient overload gets no status callback in that invocation, so its
\* entry in the key-status map is left as it was; the only status callbacks
\* of an invocation are 'expired' after a quota failure and 'active' after a
\* success.
C28_NoStatusOnOverload == Started(inv[1]) => NoStatusOnOverload(inv[1])

\* the first credential given up after 3 overloads, the next one exhausted:
\* only the second has an entry
C28_Witness ==
  LET r == inv[1]
  IN /\ r.hasCb /\ Len(r.calls) = 4
     /\ AbandonedOnOverload(r, r.calls[1].idx)
     /\ r.calls[4].outcome = "quota"
     /\ r.calls[1].key # r.calls[4].key
     /\ DOMAIN keyStatuses = {r.calls[4].key}
     /\ keyStatuses[r.calls[4].key] = "expired"

----------------------------------------------------------------------------
(* profileService: the cloud library of style profiles *)

ContentTypes == {"general", "tech"}

\* a profile as the library holds it: the fields generateScript reads, and
\* its id and folder
LibraryProfile(id, contentType, shape, qa) ==
  [id |-> id, contentType |-> Some(contentType)] @@ ProfileOf(shape, qa, MidMetrics)

LibraryProfiles ==
  {LibraryProfile("local-1", c, shape, qa) :
     c \in ContentTypes, shape \in ProfileShapes, qa \in QuantitativeAnalyses}

\* the members of the document that getUserProfiles copies into the profile
\* it rebuilds.  Members are named as in ProfileOf: cognitivePattern and
\* verbalTics are carried by styleDNA; description, structurePattern,
\* typicalSectionLength and styleSamples are copied too and are not read by
\* generateScript
Reconstructed ==
  {"name", "metrics", "signaturePhrases", "toneDescription", "cognitivePattern", "verbalTics"}

\* a member of a stored document; undefined when the document has none
Data(data, f) == IF f \in DOMAIN data THEN data[f] ELSE Absent

\* saveProfileToCloud: const { id, ...dataToSave } = profile; addDoc(...);
\* the document, and the profile returned with the id of the document
saveProfileToCloud(userId, profile, docId) ==
  [ doc |-> [id |-> docId,
             data |-> [f \in DOMAIN profile \ {"id"} |-> profile[f]]
                        @@ [userId |-> userId, savedAt |-> "now"]],
    saved |-> [profile EXCEPT !.id = docId] ]

\* getUserProfiles: one profile rebuilt from each document of the user
getUserProfiles(collection, userId) ==
  { [f \in DOMAIN LibraryProfile("", "general", "full", Absent) |->
       IF f = "id" THEN doc.id
       ELSE IF f = "contentType" THEN Some(OrString(Data(doc.data, f), "general"))
       ELSE IF f \in Reconstructed THEN Data(doc.data, f)
       ELSE Absent] :
      doc \in {d \in collection : d.data.userId = userId} }

\* documents of another user that are in the collection already
OtherDocs ==
  { saveProfileToCloud("user-2", LibraryProfile("local-9", "tech", "full", SampleAnalysis), "doc-2").doc }

\* a profile is saved to the library of a user
ProfileSaved ==
  /\ job = NoJob
  /\ \E profile \in LibraryProfiles, collection \in SUBSET OtherDocs :
       LET out == saveProfileToCloud("user-1", profile, "doc-1")
       IN job' = [ op |-> "saved", userId |-> "user-1", profile |-> profile,
                   saved |-> out.saved, collection |-> collection \cup {out.doc},
                   loaded |-> {} ]
  /\ UNCHANGED <<inv, userApiKeys, keyStatuses, uiVars>>

\* the library of the user is loaded
ProfilesLoaded ==
  /\ job.op = "saved"
  /\ job' = [job EXCEPT !.op = "loaded",
                        !.loaded = getUserProfiles(job.collection, job.userId)]
  /\ UNCHANGED <<inv, userApiKeys, keyStatuses, uiVars>>

NextLibrary == ProfileSaved \/ ProfilesLoaded

SpecLibrary == Init /\ [][NextLibrary]_vars

----------------------------------------------------------------------------
(* C30: the round trip of a profile through the cloud library *)

SameButId(p, q) ==
  /\ DOMAIN p = DOMAIN q
  /\ \A f \in DOMAIN p \ {"id"} : p[f] = q[f]

\* generateScript builds the same blueprint and the same cage from both
SameGeneration(p, q) ==
  /\ cognitiveCage(p) = cognitiveCage(q)
  /\ \A targetLength \in TargetLengths :
       {structureBlueprint(targetLength, Absent, p, ups) : ups \in HalfChoices(targetLength, Absent, p)}
         = {structureBlueprint(targetLength, Absent, q, ups) : ups \in HalfChoices(targetLength, Absent, q)}
  /\ enforceHeaders(Absent, p) = enforceHeaders(Absent, q)

\* C30: for every style profile, saving it with saveProfileToCloud and then
\* loading the profiles of the user with getUserProfiles gives a profile equal
\* to the saved one in every field but the id, quantitativeAnalysis and the
\* structural patterns included, so that generateScript builds the same
\* blueprint and the same cognitive cage from the reloaded profile.
C30_CloudRoundTrip ==
  job.op = "loaded" =>
    \E q \in job.loaded :
      /\ q.id = job.saved.id
      /\ SameButId(q, job.profile)
      /\ SameGeneration(q, job.profile)


----------------------------------------------------------------------------
(* Specification of a session: the user logs in and out, edits the pool and
   starts the handlers of Analyze and Generate, whose calls of the executor
   can overlap, while the service answers each operation call with a result
   or with a quota failure, at most MaxFaults of which *)

NextSession ==
  \/ \E storedKeys \in StoredKeyLists : handleLogin(storedKeys)
  \/ handleLogout
  \/ \E input \in {KeyA, KeyB} : handleAddApiKey(input)
  \/ \E index \in 1..MaxPool : handleRemoveApiKey(index)
  \/ handleAnalyze
  \/ handleGenerate
  \/ \E i \in Invs : HandlerResumes(i)
  \/ \E i \in Invs, v \in AppResults : OpSucceeds(i, v)
  \/ Faults < MaxFaults /\ \E i \in Invs : OpQuota(i, E429)

SpecSession == Init /\ [][NextSession]_vars

(* Specification of the loading state: a user with stored keys logs in and
   starts the three handlers in any order, each when its button is enabled *)

NextLoading ==
  \/ \E storedKeys \in StoredKeyLists \ {<<>>} : handleLogin(storedKeys)
  \/ handleAnalyze
  \/ handleGenerate
  \/ handleLocationSearch
  \/ \E i \in Invs : HandlerResumes(i)
  \/ \E i \in Invs, v \in AppResults : OpSucceeds(i, v)
  \/ Faults < MaxFaults /\ \E i \in Invs : OpQuota(i, E429)

SpecLoading == Init /\ [][NextLoading]_vars

----------------------------------------------------------------------------
(* C24: the loading state and the calls in flight *)

\* the call of the executor made by the handler of slot i has not ended
InFlight(i) == inv[i].pc \in {"call", "delay"}

CallsInFlight == {i \in Invs : InFlight(i)}

\* C24: in every state reached by starting Analyze, Generate and the location
\* search and by the completions of their calls, appState is IDLE only when
\* no call of the executor is in flight, and at most one call is in flight
C24_LoadingCoversCall ==
  /\ appState = "IDLE" => CallsInFlight = {}
  /\ Cardinality(CallsInFlight) <= 1


----------------------------------------------------------------------------
(* C25: the lock *)

\* C25: in every state reached by logins, logouts and completions of the
\* calls in flight, appState is LOCKED whenever the user is not authenticated
C25_LockInvariant == ~isAuthenticated => appState = "LOCKED"


----------------------------------------------------------------------------
(* C26: the status map and the pool *)

InPool(key) == \E k \in 1..Len(userApiKeys) : userApiKeys[k] = key

\* C26: in every state reached by adding and removing keys, logouts and the
\* status callbacks of the calls in flight, every credential that has an
\* entry in keyStatuses is a member of userApiKeys
C26_StatusesWithinPool == \A key \in DOMAIN keyStatuses : InPool(key)


----------------------------------------------------------------------------
(* C23: no status ahead of use *)

\* some call of the operation with the credential has had the outcome
SettledWith(key, outcome) ==
  \E i \in Invs : \E n \in 1..Len(inv[i].calls) :
    /\ inv[i].calls[n].outcome = outcome
    /\ inv[i].keysToUse[inv[i].calls[n].idx] = key

\* every 'active' was earned by a success and every 'expired' by a quota
\* failure with the credential
StatusEarned ==
  \A key \in DOMAIN keyStatuses :
    /\ keyStatuses[key] = "active" => SettledWith(key, "ok")
    /\ keyStatuses[key] = "expired" => SettledWith(key, "quota")

Fresh(statuses, key) == key \notin DOMAIN statuses \/ statuses[key] = "ready"

\* a step of handleAddApiKey: the pool of the user who is logged in grows
JustAdded ==
  isAuthenticated /\ isAuthenticated' /\ Len(userApiKeys') = Len(userApiKeys) + 1

\* a step of handleLogin: the stored keys have become the pool
JustLoaded == ~isAuthenticated /\ isAuthenticated'

AddedIsFresh ==
  JustAdded => Fresh(keyStatuses', userApiKeys'[Len(userApiKeys')])

LoadedIsFresh ==
  JustLoaded => \A k \in 1..Len(userApiKeys') : Fresh(keyStatuses', userApiKeys'[k])

\* C23: in every state a credential is 'active' only if some invocation's
\* operation has succeeded with it and 'expired' only if some invocation got
\* a quota failure on it, and a credential that has just been added or
\* loaded from storage is 'ready' or has no entry
C23_NoStatusAheadOfUse ==
  /\ []StatusEarned
  /\ [][AddedIsFresh]_vars
  /\ [][LoadedIsFresh]_vars


----------------------------------------------------------------------------
(* Specification of the structures of a cloud user: the user logs in and out,
   creates, edits, selects and deletes structures, and the cloud store
   answers each request or fails it *)

NextStructures ==
  \/ handleLogin(<<>>)
  \/ handleLogout
  \/ loadUserData
  \/ \E name \in StructureNames : handleSaveStructure("null", name)
  \/ \E id \in Ids(savedStructures), name \in StructureNames : handleSaveStructure(id, name)
  \/ \E q \in requests : StructureSaved(q)
  \/ \E q \in requests : StructureSaveFailed(q)
  \/ \E id \in Ids(savedStructures) \cup {"auto"} : selectStructure(id)
  \/ \E id \in Ids(savedStructures) : handleDeleteStructure(id)
  \/ \E q \in requests : StructureDeleted(q)
  \/ \E q \in requests : StructureDeleteFailed(q)

SpecStructures == Init /\ [][NextStructures]_vars

----------------------------------------------------------------------------
(* C29: the selected structure *)

SelectionValid ==
  selectedStructureId = "auto" \/ selectedStructureId \in Ids(savedStructures)

\* a step of handleDeleteStructure on the selected structure
DeletesSelected ==
  \E q \in requests' \ requests : q.kind = "delete" /\ q.id = selectedStructureId

ResetOnDelete == DeletesSelected => selectedStructureId' = "auto"

\* C29: in every state reached by creating, editing and deleting structures,
\* failed deletes that are reverted, logouts and logins, selectedStructureId
\* is 'auto' or the id of a structure in savedStructures, and deleting the
\* selected structure resets the selection to 'auto'
C29_SelectionValid == []SelectionValid /\ [][ResetOnDelete]_vars

====
